---------------------------- MODULE Spec2Model ----------------------------
(***************************************************************************)
(* A model of the RuStore opportunity checker (scraper-node/src/parser.js, *)
(* held in src/unnamed/part_000): query cleaning, title classification,    *)
(* translation with retry, relevance filtering, opportunity scoring and    *)
(* the checkRuStore pipeline that ties them together.                      *)
(*                                                                         *)
(* JavaScript strings are modelled as sequences of characters, a character *)
(* being a one-character TLA+ string; the few non-ASCII characters the     *)
(* code names are written "tm", "reg", "copy", "ndash", "mdash" and the    *)
(* Cyrillic letters "cyr_a", "cyr_b", "CYR_A".  Numbers with decimals      *)
(* (ratings) are kept in hundredths.                                       *)
(***************************************************************************)
EXTENDS Integers, Sequences, FiniteSets

VARIABLES
    title,            \* checkRuStore/cleanSearchQuery argument
    category,         \* checkRuStore/cleanSearchQuery argument
    gpRating,         \* checkRuStore argument (Absent when not passed)
    installs,         \* checkRuStore argument (a record, see InstallsInputs)
    pc,               \* position of the running function
    classification,   \* const classification = classifyTitle(title)
    cleaned,          \* const cleaned = cleanSearchQuery(title, category)
    searchQuery,      \* let searchQuery
    translateCalled,  \* translateToRussian was invoked by this check
    attempt,          \* withRetry: the loop variable
    delays,           \* withRetry: the delays waited so far, base part [ms]
    jitter,           \* withRetry: Math.random() * 500 of the last wait, floor
    translationCache, \* const translationCache = new Map()
    cacheAtCall,      \* history: translationCache when the check began
    endpointCalls,    \* history: number of fetch() calls to the translator
    failures,         \* history: number of failed attempts of the running retry
    page,             \* the page of this check: "none" | "open" | "closed"
    competitors,      \* let competitors = []
    report,           \* the value checkRuStore returns (NoReport before)
    path,             \* history: which return statement produced the report
    thrownIn,         \* history: the call whose error checkRuStore let through
    retryResult,      \* history: how the last withRetry call ended
    stats,            \* argument of calculateOpportunityScore
    score,            \* its result
    competitor,       \* argument of calculateRelevance
    relevance,        \* its result
    db,               \* the database behind the singleton connection
    calls,            \* the calls of the data operations, each with its position
    translations,     \* the calls of translateToRussian, each with its position
    browser,          \* let browser = null (0), else the launched browser
    rusContext,       \* let rusContext = null (0), else the created context
    playwright,       \* the browsers and contexts that were ever created
    tasks             \* the calls that use the browser, each with its position

vars == <<title, category, gpRating, installs, pc, classification, cleaned,
          searchQuery, translateCalled, attempt, delays, jitter,
          translationCache, cacheAtCall, endpointCalls, failures, page,
          competitors, report, path, thrownIn, retryResult, stats, score, competitor,
          relevance, db, calls, translations,
         browser, rusContext, playwright, tasks>>

storeVars == <<db, calls>>

browserVars == <<browser, rusContext, playwright, tasks>>

---------------------------------------------------------------------------
(* Bounds of the model *)

\* titles are built from at most this many vocabulary words
MaxWords == 3

---------------------------------------------------------------------------
(* Characters *)

LowerSeq ==
    <<"a", "b", "c", "d", "e", "f", "g", "h", "i", "j", "k", "l", "m",
      "n", "o", "p", "q", "r", "s", "t", "u", "v", "w", "x", "y", "z", "cyr_a">>

UpperSeq ==
    <<"A", "B", "C", "D", "E", "F", "G", "H", "I", "J", "K", "L", "M",
      "N", "O", "P", "Q", "R", "S", "T", "U", "V", "W", "X", "Y", "Z", "CYR_A">>

\* [a-z] and [A-Z] of the regular expressions (ASCII only)
AsciiLower == {LowerSeq[i] : i \in 1..26}

AsciiUpper == {UpperSeq[i] : i \in 1..26}

Digits == {"0", "1", "2", "3", "4", "5", "6", "7", "8", "9"}

\* [а-яё] with the i flag
Cyrillic == {"cyr_a", "cyr_b", "CYR_A"}

\* \s
Whitespace == {" "}

\* \w, which decides where \b matches
WordChars == AsciiLower \cup AsciiUpper \cup Digits \cup {"_"}

\* String.prototype.toLowerCase on one character
ToLowerMap ==
    [c \in {UpperSeq[i] : i \in 1..Len(UpperSeq)} |->
        LowerSeq[CHOOSE i \in 1..Len(UpperSeq) : UpperSeq[i] = c]]

toLowerCase(s) ==
    [i \in 1..Len(s) |-> IF s[i] \in DOMAIN ToLowerMap THEN ToLowerMap[s[i]] ELSE s[i]]

\* /[,()[\]:;!?'"™®©]/ of the short-title path
PunctShort ==
    {",", "(", ")", "[", "]", ":", ";", "!", "?", "'", "\"", "tm", "reg", "copy"}

\* /[,()[\]:;!?'"&\-–—™®©]/ of every other place
PunctLong == PunctShort \cup {"&", "-", "ndash", "mdash"}

---------------------------------------------------------------------------
(* String helpers: the String methods the code calls *)

\* s.replace(/[set]/g, ' ')
ReplaceChars(s, set) == [i \in 1..Len(s) |-> IF s[i] \in set THEN " " ELSE s[i]]

\* s.replace(/[set]/g, '')
RemoveChars(s, set) == SelectSeq(s, LAMBDA c : c \notin set)

RECURSIVE DropLeadingWs(_)
DropLeadingWs(s) ==
    IF s # <<>> /\ Head(s) \in Whitespace THEN DropLeadingWs(Tail(s)) ELSE s

RECURSIVE DropTrailingWs(_)
DropTrailingWs(s) ==
    IF s # <<>> /\ s[Len(s)] \in Whitespace
    THEN DropTrailingWs(SubSeq(s, 1, Len(s) - 1))
    ELSE s

\* s.trim()
trim(s) == DropTrailingWs(DropLeadingWs(s))

\* s.replace(/\s+/g, ' ')
RECURSIVE CollapseWs(_)
CollapseWs(s) ==
    IF s = <<>> THEN <<>>
    ELSE IF Head(s) \in Whitespace
         THEN <<" ">> \o CollapseWs(DropLeadingWs(s))
         ELSE <<Head(s)>> \o CollapseWs(Tail(s))

\* index of the first whitespace character of s, 0 when there is none
RECURSIVE FirstWs(_, _)
FirstWs(s, i) ==
    IF i > Len(s) THEN 0
    ELSE IF s[i] \in Whitespace THEN i ELSE FirstWs(s, i + 1)

\* s.split(/\s+/): "" gives [""], a leading or trailing run gives an empty string
RECURSIVE split(_)
split(s) ==
    LET i == FirstWs(s, 1) IN
    IF i = 0 THEN <<s>>
    ELSE <<SubSeq(s, 1, i - 1)>> \o split(DropLeadingWs(SubSeq(s, i, Len(s))))

\* whether /\bphrase\b/i matches s at position p
MatchAt(s, phrase, p) ==
    /\ p + Len(phrase) - 1 <= Len(s)
    /\ toLowerCase(SubSeq(s, p, p + Len(phrase) - 1)) = phrase
    /\ (p = 1 \/ s[p - 1] \notin WordChars)
    /\ (p + Len(phrase) > Len(s) \/ s[p + Len(phrase)] \notin WordChars)

\* s.replace(new RegExp(`\\b${phrase}\\b`, 'gi'), ' '), scanning from p
RECURSIVE ReplaceWordFrom(_, _, _)
ReplaceWordFrom(s, phrase, p) ==
    IF p > Len(s) THEN <<>>
    ELSE IF MatchAt(s, phrase, p)
         THEN <<" ">> \o ReplaceWordFrom(s, phrase, p + Len(phrase))
         ELSE <<s[p]>> \o ReplaceWordFrom(s, phrase, p + 1)

ReplaceWord(s, phrase) == ReplaceWordFrom(s, phrase, 1)

\* a.includes(b)
includes(a, b) ==
    \E p \in 1..(Len(a) - Len(b) + 1) : SubSeq(a, p, p + Len(b) - 1) = b

---------------------------------------------------------------------------
(* 2.6 The filler tables *)

UNIVERSAL_FILLER ==
    << <<"f", "o", "r", " ", "a", "n", "d", "r", "o", "i", "d">>,
       <<"f", "o", "r", " ", "p", "h", "o", "n", "e">>,
       <<"f", "o", "r", " ", "m", "o", "b", "i", "l", "e">>,
       <<"p", "r", "o">>,
       <<"f", "r", "e", "e">>,
       <<"a", "p", "p">>,
       <<"l", "i", "t", "e">>,
       <<"p", "l", "u", "s">>,
       <<"p", "r", "e", "m", "i", "u", "m">>,
       <<"m", "o", "d">>,
       <<"t", "h", "e">>,
       <<"a">>,
       <<"a", "n">>,
       <<"n", "e", "w">>,
       <<"b", "e", "s", "t">>,
       <<"t", "o", "p">>,
       <<"u", "l", "t", "i", "m", "a", "t", "e">>,
       <<"o", "f", "f", "i", "c", "i", "a", "l">> >>

\* CATEGORY_FILLER[category]; <<>> stands for undefined (no entry).  The
\* entries of the categories the model draws from, in insertion order.
CATEGORY_FILLER(cat) ==
    CASE cat = "Communication" ->
           << <<"m", "e", "s", "s", "e", "n", "g", "e", "r">>,
              <<"m", "e", "s", "s", "a", "g", "i", "n", "g">>,
              <<"c", "h", "a", "t">>,
              <<"c", "a", "l", "l">>,
              <<"c", "a", "l", "l", "i", "n", "g">> >>
      [] cat = "Photography" ->
           << <<"p", "h", "o", "t", "o">>,
              <<"c", "a", "m", "e", "r", "a">>,
              <<"p", "i", "c", "t", "u", "r", "e">>,
              <<"p", "i", "c">>,
              <<"i", "m", "a", "g", "e">> >>
      [] cat = "Music & Audio" ->
           << <<"m", "u", "s", "i", "c">>,
              <<"p", "l", "a", "y", "e", "r">>,
              <<"a", "u", "d", "i", "o">>,
              <<"s", "o", "u", "n", "d">>,
              <<"m", "p", "3">> >>
      [] OTHER -> <<>>

---------------------------------------------------------------------------
(* isBrandToken *)

isBrandToken(originalWord) ==
    \/ \E i \in 1..(Len(originalWord) - 1) :
          originalWord[i] \in AsciiLower /\ originalWord[i + 1] \in AsciiUpper
    \/ Len(originalWord) >= 2 /\ \A i \in 1..Len(originalWord) : originalWord[i] \in AsciiUpper
    \/ /\ \E i \in 1..Len(originalWord) : originalWord[i] \in AsciiLower \cup AsciiUpper
       /\ \E i \in 1..Len(originalWord) : originalWord[i] \in Digits
    \/ \E i \in 1..Len(originalWord) : originalWord[i] \in {"tm", "reg", "copy"}

---------------------------------------------------------------------------
(* cleanSearchQuery *)

\* protectedWords without the first-word rule: only brand tokens are protected
protectedWordsBrandOnly(words) ==
    {toLowerCase(RemoveChars(words[i], PunctLong)) :
        i \in {j \in 1..Len(words) :
                 LET clean == RemoveChars(words[j], PunctLong) IN
                 clean # <<>> /\ isBrandToken(clean)}}

\* the forEach that fills protectedWords
protectedWords(words) ==
    {toLowerCase(RemoveChars(words[i], PunctLong)) :
        i \in {j \in 1..Len(words) :
                 LET clean == RemoveChars(words[j], PunctLong) IN
                 clean # <<>> /\ (isBrandToken(clean) \/ j = 1)}}

\* the loop over UNIVERSAL_FILLER, from its k-th phrase on
RECURSIVE removeUniversal(_, _, _)
removeUniversal(s, prot, k) ==
    IF k > Len(UNIVERSAL_FILLER) THEN s
    ELSE LET phrase == UNIVERSAL_FILLER[k] IN
         IF Len(split(phrase)) = 1 /\ phrase \in prot
         THEN removeUniversal(s, prot, k + 1)
         ELSE removeUniversal(ReplaceWord(s, phrase), prot, k + 1)

\* the loop over catFillers, from its k-th word on
RECURSIVE removeCategory(_, _, _, _)
removeCategory(s, catFillers, prot, k) ==
    IF k > Len(catFillers) THEN s
    ELSE IF catFillers[k] \in prot
         THEN removeCategory(s, catFillers, prot, k + 1)
         ELSE removeCategory(ReplaceWord(s, catFillers[k]), catFillers, prot, k + 1)

\* cleanShort with the minimum-length guard of line 220 left out
cleanShortUnguarded(t) == trim(CollapseWs(ReplaceChars(t, PunctShort)))

\* the short-title branch (at most 2 words)
cleanShort(t) ==
    LET c == trim(CollapseWs(ReplaceChars(t, PunctShort))) IN
    IF Len(c) >= 2 THEN c ELSE t

\* softClean with the trailing toLowerCase() of line 262 left out
softCleanKeepingCase(t) == trim(CollapseWs(ReplaceChars(t, PunctLong)))

\* the soft clean-up the minimum-length guard falls back to
softClean(t) == toLowerCase(trim(CollapseWs(ReplaceChars(t, PunctLong))))

\* the branch of titles of more than 2 words
cleanLong(t, cat, words) ==
    LET prot     == protectedWords(words)
        noUniv   == removeUniversal(toLowerCase(t), prot, 1)
        noCat    == removeCategory(noUniv, CATEGORY_FILLER(cat), prot, 1)
        stripped == trim(CollapseWs(ReplaceChars(noCat, PunctLong)))
        remainingWords == SelectSeq(split(stripped), LAMBDA w : Len(w) >= 2)
        c == IF Len(remainingWords) < 2 \/ Len(stripped) < 3
             THEN softClean(t)
             ELSE stripped
    IN  IF Len(c) >= 2 THEN c ELSE t

\* cleanSearchQuery without the short-title branch: every title takes the
\* stop-word path
cleanSearchQueryNoShortPath(t, cat) == cleanLong(t, cat, split(trim(t)))

cleanSearchQuery(t, cat) ==
    LET words == split(trim(t)) IN
    IF Len(words) <= 2 THEN cleanShort(t) ELSE cleanLong(t, cat, words)

---------------------------------------------------------------------------
(* 2.1 classifyTitle *)

\* the words of the title with the punctuation removed, empty ones skipped
cleanWords(t) ==
    SelectSeq([i \in 1..Len(split(trim(t))) |-> RemoveChars(split(trim(t))[i], PunctLong)],
              LAMBDA w : w # <<>>)

UniversalFillerSet == {UNIVERSAL_FILLER[k] : k \in 1..Len(UNIVERSAL_FILLER)}

\* classifyTitle without the mixed case: any brand word makes a brand
classifyTitleNeverMixed(t) ==
    LET brandWords == SelectSeq(cleanWords(t), isBrandToken)
        otherWords == SelectSeq(cleanWords(t), LAMBDA w : ~isBrandToken(w))
        meaningfulOther ==
            SelectSeq(otherWords,
                      LAMBDA w : toLowerCase(w) \notin UniversalFillerSet /\ Len(w) >= 2)
        type == IF Len(brandWords) > 0 THEN "brand" ELSE "descriptive"
    IN  [type |-> type, brandWords |-> brandWords, otherWords |-> meaningfulOther]

classifyTitle(t) ==
    LET brandWords == SelectSeq(cleanWords(t), isBrandToken)
        otherWords == SelectSeq(cleanWords(t), LAMBDA w : ~isBrandToken(w))
        meaningfulOther ==
            SelectSeq(otherWords,
                      LAMBDA w : toLowerCase(w) \notin UniversalFillerSet /\ Len(w) >= 2)
        type == IF Len(brandWords) > 0 /\ Len(meaningfulOther) = 0 THEN "brand"
                ELSE IF Len(brandWords) > 0 /\ Len(meaningfulOther) > 0 THEN "mixed"
                ELSE "descriptive"
    IN  [type |-> type, brandWords |-> brandWords, otherWords |-> meaningfulOther]

---------------------------------------------------------------------------
(* Values that are not strings *)

\* null (a rating that is missing, avgRating/maxRating without data) and
\* undefined (an argument that was not passed)
Null == -1

Absent == -2

\* a string no function produces: a variable that was not assigned yet
Unset == <<"unset">>

\* a rational number n/d in lowest terms, d > 0
RECURSIVE GCD(_, _)
GCD(a, b) == IF b = 0 THEN a ELSE GCD(b, a % b)

Rat(n, d) == IF n = 0 THEN [n |-> 0, d |-> 1] ELSE [n |-> n \div GCD(n, d), d |-> d \div GCD(n, d)]

RatLeq(x, y) == x.n * y.d <= y.n * x.d

RatMax(x, y) == IF RatLeq(x, y) THEN y ELSE x

RatOne == [n |-> 1, d |-> 1]

---------------------------------------------------------------------------
(* 2.2 Relevance *)

\* RELEVANCE_THRESHOLD = 0.15 as the fraction 15/100
RELEVANCE_THRESHOLD == [n |-> 3, d |-> 20]

\* new Set(a.toLowerCase().split(/\s+/).filter(w => w.length >= 2))
wordSet(a) ==
    LET ws == split(toLowerCase(a)) IN {ws[i] : i \in {j \in 1..Len(ws) : Len(ws[j]) >= 2}}

wordJaccard(a, b) ==
    LET setA == wordSet(a)
        setB == wordSet(b)
    IN  IF setA = {} \/ setB = {} THEN Rat(0, 1)
        ELSE Rat(Cardinality(setA \cap setB), Cardinality(setA \cup setB))

substringMatch(a, b) ==
    LET al == trim(toLowerCase(a))
        bl == trim(toLowerCase(b))
    IN  IF Len(al) < 2 \/ Len(bl) < 2 THEN FALSE
        ELSE includes(al, bl) \/ includes(bl, al)

\* Math.max(jaccardQuery, jaccardOriginal)
bestJaccard(c, query, cleanedTitle) ==
    RatMax(wordJaccard(c.name, query), wordJaccard(c.name, cleanedTitle))

\* the substring bonus applies
substringBonus(c, query, cleanedTitle) ==
    substringMatch(c.name, query) \/ substringMatch(c.name, cleanedTitle)

\* calculateRelevance with the rating test inverted: the bonus goes to the
\* competitor without a rating
calculateRelevanceRatingInverted(c, query, cleanedTitle) ==
    LET best == bestJaccard(c, query, cleanedTitle)
        sub  == IF substringBonus(c, query, cleanedTitle) THEN 3 * best.d ELSE 0
        rat  == IF c.rating = Null THEN best.d ELSE 0
        sc   == Rat(6 * best.n + sub + rat, 10 * best.d)
    IN  IF RatLeq(RatOne, sc) THEN RatOne ELSE sc

\* score = bestJaccard * 0.6 (+ 0.3) (+ 0.1), Math.min(1, score); in exact
\* arithmetic, as (6 n + 3 d [substring] + d [rating]) / (10 d)
calculateRelevance(c, query, cleanedTitle) ==
    LET best == bestJaccard(c, query, cleanedTitle)
        sub  == IF substringBonus(c, query, cleanedTitle) THEN 3 * best.d ELSE 0
        rat  == IF c.rating # Null THEN best.d ELSE 0
        sc   == Rat(6 * best.n + sub + rat, 10 * best.d)
    IN  IF RatLeq(RatOne, sc) THEN RatOne ELSE sc

\* the threshold at the bonus of a rating: a rating alone makes a card relevant
isRelevantByRating(rel) == RatLeq(Rat(1, 10), rel)

\* c.relevance >= RELEVANCE_THRESHOLD
isRelevant(rel) == RatLeq(RELEVANCE_THRESHOLD, rel)

---------------------------------------------------------------------------
(* 2.3 Opportunity score *)

\* String.prototype.toUpperCase
ToUpperMap ==
    [c \in {LowerSeq[i] : i \in 1..Len(LowerSeq)} |->
        UpperSeq[CHOOSE i \in 1..Len(LowerSeq) : LowerSeq[i] = c]]

toUpperCase(s) ==
    [i \in 1..Len(s) |-> IF s[i] \in DOMAIN ToUpperMap THEN ToUpperMap[s[i]] ELSE s[i]]

DigitValue(c) == CHOOSE v \in 0..9 : <<"0", "1", "2", "3", "4", "5", "6", "7", "8", "9">>[v + 1] = c

\* install counts are whole numbers; one above InstallsCap is kept as
\* InstallsCap, where f3 = Math.min(1, ...) has reached 1
InstallsCap == 1000000000

SatTimes10(v) == IF v > InstallsCap \div 10 THEN InstallsCap ELSE v * 10

RECURSIVE SatScale(_, _)
SatScale(v, e) == IF e = 0 \/ v = 0 THEN v ELSE SatScale(SatTimes10(v), e - 1)

\* length of the longest prefix of s, from position i, made of characters of set
RECURSIVE RunLength(_, _, _)
RunLength(s, i, set) ==
    IF i <= Len(s) /\ s[i] \in set THEN 1 + RunLength(s, i + 1, set) ELSE 0

\* the whole digits of a digit string as a number, saturating
RECURSIVE DigitsValue(_, _)
DigitsValue(ds, acc) ==
    IF ds = <<>> THEN acc
    ELSE DigitsValue(Tail(ds), IF acc >= InstallsCap \div 10 THEN InstallsCap
                               ELSE acc * 10 + DigitValue(Head(ds)))

\* parseFloat(match[1]) * 10^e for a string of [\d.]+ : the longest prefix
\* digits [. digits] is read, NaN (no digit at all) gives NaN * m, which no
\* comparison finds > 0: 0 here.  The value is kept whole (floor).
ParseFloatScaled(numStr, e) ==
    LET ni    == RunLength(numStr, 1, Digits)
        hasPt == ni < Len(numStr) /\ numStr[ni + 1] = "."
        nf    == IF hasPt THEN RunLength(numStr, ni + 2, Digits) ELSE 0
        int   == SubSeq(numStr, 1, ni)
        frac  == IF hasPt THEN SubSeq(numStr, ni + 2, ni + 1 + nf) ELSE <<>>
        used  == IF Len(frac) > e THEN SubSeq(frac, 1, e) ELSE frac
    IN  IF ni = 0 /\ nf = 0 THEN 0
        ELSE SatScale(DigitsValue(int \o used, 0), e - Len(used))

\* { '': 1, 'K': 1e3, 'M': 1e6, 'B': 1e9, 'T': 1e12 } as powers of ten
SuffixExponent(c) ==
    CASE c = "K" -> 3 [] c = "M" -> 6 [] c = "B" -> 9 [] c = "T" -> 12 [] OTHER -> 0

parseInstalls(installsStr) ==
    IF installsStr = <<>> \/ installsStr = <<"N", "/", "A">> THEN 0
    ELSE LET str == toUpperCase(trim(RemoveChars(installsStr, {"+", ","})))
             nn  == RunLength(str, 1, Digits \cup {"."})
             nw  == RunLength(str, nn + 1, Whitespace)
             rest == SubSeq(str, nn + nw + 1, Len(str))
         IN  \* str.match(/^([\d.]+)\s*([KMBT]?)$/)
             IF nn = 0 \/ Len(rest) > 1 \/ (Len(rest) = 1 /\ rest[1] \notin {"K", "M", "B", "T"})
             THEN 0
             ELSE ParseFloatScaled(SubSeq(str, 1, nn),
                                   IF rest = <<>> THEN 0 ELSE SuffixExponent(rest[1]))

\* Math.floor(Math.log10(n) * 1e6) for the install counts (plus one) of the model
log10Micro ==
    [n \in {2, 1001, 1501, 500001, 1234001, 10000001, 1000000001} |->
        CASE n = 2          -> 301029
          [] n = 1001       -> 3000434
          [] n = 1501       -> 3176380
          [] n = 500001     -> 5698970
          [] n = 1234001    -> 6091315
          [] n = 10000001   -> 7000000
          [] n = 1000000001 -> 9000000]

\* the factors f1..f5 are kept in units of 1/ScoreUnit
ScoreUnit == 9000000

Max(a, b) == IF a >= b THEN a ELSE b

Min(a, b) == IF a <= b THEN a ELSE b

\* typeof installs === 'string' ? parseInstalls(installs) : (installs || 0)
installsNumOf(inst) ==
    IF inst.kind = "string" THEN parseInstalls(inst.str)
    ELSE IF inst.kind = "number" THEN Min(inst.num, InstallsCap)
    ELSE 0

\* f1 with the scale turned round: more competitors, higher factor
factor1Inverted(competitorsCount) == Min(ScoreUnit, (ScoreUnit \div 20) * competitorsCount)

\* Math.max(0, 1 - competitorsCount / 20)
factor1(competitorsCount) == Max(0, ScoreUnit - (ScoreUnit \div 20) * competitorsCount)

\* avgRating === null ? 0.7 : Math.max(0, 1 - (avgRating - 2) / 3)
factor2(avgRating) ==
    IF avgRating = Null THEN (ScoreUnit \div 10) * 7
    ELSE Max(0, ScoreUnit - (ScoreUnit \div 300) * (avgRating - 200))

\* installsNum > 0 ? Math.min(1, Math.log10(installsNum + 1) / 9) : 0
factor3(installsNum) ==
    IF installsNum > 0 THEN Min(ScoreUnit, log10Micro[installsNum + 1]) ELSE 0

\* Math.max(0, Math.min(1, (gpRating - 2.5) / 2))
factor4(gp) == Max(0, Min(ScoreUnit, (ScoreUnit \div 200) * (gp - 250)))

\* maxRating === null ? 1.0 : Math.max(0, 1 - (maxRating - 2) / 3)
factor5(maxRating) ==
    IF maxRating = Null THEN ScoreUnit
    ELSE Max(0, ScoreUnit - (ScoreUnit \div 300) * (maxRating - 200))

\* Math.round(x) for x = n / ScoreUnit, n >= 0
roundUnits(n) == (2 * n + ScoreUnit) \div (2 * ScoreUnit)

\* calculateOpportunityScore without the final Math.max(0, Math.min(100, ..))
clampScoreMissing(s) == s

\* Math.max(0, Math.min(100, score))
clampScore(s) == Max(0, Min(100, s))

calculateOpportunityScore(st) ==
    LET f1 == factor1(st.competitorsCount)
        f2 == factor2(st.avgRating)
        f3 == factor3(installsNumOf(st.installs))
        f4 == factor4(st.gpRating)
        f5 == factor5(st.maxRating)
        raw100 == 30 * f1 + 25 * f2 + 25 * f3 + 10 * f4 + 10 * f5
    IN  clampScore(roundUnits(raw100))

---------------------------------------------------------------------------
(* Inputs *)

\* the words titles are built from: a CamelCase brand, a category filler of
\* Communication, one of Photography, a plain word, a universal filler, a
\* one-letter name, punctuation alone, and a word with an ampersand
Vocabulary ==
    { <<"W", "h", "a", "t", "s", "A", "p", "p">>,
      <<"M", "e", "s", "s", "e", "n", "g", "e", "r">>,
      <<"P", "h", "o", "t", "o">>,
      <<"E", "d", "i", "t", "o", "r">>,
      <<"P", "r", "o">>,
      <<"X">>,
      <<"!">>,
      <<"C", "h", "a", "t", "&", "C", "a", "l", "l">> }

\* words.join(' ')
RECURSIVE JoinWords(_)
JoinWords(ws) ==
    IF Len(ws) = 1 THEN ws[1] ELSE ws[1] \o <<" ">> \o JoinWords(Tail(ws))

Titles == UNION {{JoinWords(ws) : ws \in [1..n -> Vocabulary]} : n \in 1..MaxWords}

Categories == {"General", "Communication", "Photography"}

---------------------------------------------------------------------------
(* The state before any function has run *)

NoClassification == [type |-> "none", brandWords |-> <<>>, otherWords |-> <<>>]

NoReport == [searchQuery |-> Unset]

NoStats ==
    [competitorsCount |-> 0, avgRating |-> Null, maxRating |-> Null, gpRating |-> 0,
     installs |-> [kind |-> "absent", str |-> <<>>, num |-> 0]]

NoCompetitor == [name |-> Unset, rating |-> Null]

\* new Map()
EmptyCache == [k \in {} |-> Unset]

\* no transaction is open: the rollback journal holds nothing
NoJournal == [apps |-> {}, reports |-> <<>>, seq |-> 0]

\* the database file before initSchema has created the tables' first rows
NoDb == [apps |-> {}, reports |-> <<>>, seq |-> 0, inTransaction |-> FALSE,
         journal |-> NoJournal]

\* no withRetry call was made yet
NoPlaywright == [browsers |-> <<>>, contexts |-> <<>>]

NoTasks == <<>>

NoBrowserUse ==
    /\ browser = 0
    /\ rusContext = 0
    /\ playwright = NoPlaywright
    /\ tasks = NoTasks

NoRetry == [outcome |-> "none", attempt |-> 0]

Idle ==
    /\ gpRating = Absent
    /\ installs = [kind |-> "absent", str |-> <<>>, num |-> 0]
    /\ classification = NoClassification
    /\ cleaned = Unset
    /\ searchQuery = Unset
    /\ translateCalled = FALSE
    /\ attempt = 0
    /\ delays = <<>>
    /\ jitter = 0
    /\ translationCache = EmptyCache
    /\ cacheAtCall = EmptyCache
    /\ endpointCalls = 0
    /\ failures = 0
    /\ page = "none"
    /\ competitors = <<>>
    /\ report = NoReport
    /\ path = "none"
    /\ thrownIn = "none"
    /\ retryResult = NoRetry
    /\ stats = NoStats
    /\ score = Null
    /\ competitor = NoCompetitor
    /\ relevance = Rat(0, 1)

---------------------------------------------------------------------------
(* The query builder on its own: classifyTitle, then cleanSearchQuery *)

\* checkRuStore, step 1: const classification = classifyTitle(title)
Classify ==
    /\ pc = "start"
    /\ classification' = classifyTitle(title)
    /\ pc' = "classified"
    /\ UNCHANGED <<storeVars, browserVars, translations, title, category, gpRating, installs, cleaned, searchQuery,
                   translateCalled, attempt, delays, jitter, translationCache,
                   cacheAtCall, thrownIn, retryResult, endpointCalls, failures, page, competitors, report,
                   path, stats, score, competitor, relevance>>

\* checkRuStore, step 2: const cleaned = cleanSearchQuery(title, category)
Clean ==
    /\ pc = "classified"
    /\ cleaned' = cleanSearchQuery(title, category)
    /\ pc' = "cleaned"
    /\ UNCHANGED <<storeVars, browserVars, translations, title, category, gpRating, installs, classification, searchQuery,
                   translateCalled, attempt, delays, jitter, translationCache,
                   cacheAtCall, thrownIn, retryResult, endpointCalls, failures, page, competitors, report,
                   path, stats, score, competitor, relevance>>

InitQuery ==
    /\ title \in Titles
    /\ category \in Categories
    /\ pc = "start"
    /\ Idle
    /\ db = NoDb
    /\ calls = <<>>
    /\ translations = <<>>
    /\ NoBrowserUse

NextQuery == Classify \/ Clean

SpecQuery == InitQuery /\ [][NextQuery]_vars

---------------------------------------------------------------------------
(* withRetry *)

\* { maxRetries = 3 }, and the value both callers of checkRuStore pass
maxRetries == 3

\* baseDelay of the 'MyMemory translate' retry
TranslateBaseDelay == 1000

\* baseDelay of the 'RuStore goto' retry
GotoBaseDelay == 2000

RECURSIVE Pow2(_)
Pow2(k) == IF k = 0 THEN 1 ELSE 2 * Pow2(k - 1)

\* the delay with the exponent one too high: 2 * baseDelay for the first wait
retryDelayDoubled(baseDelay, att) == baseDelay * Pow2(att)

\* baseDelay * Math.pow(2, attempt - 1), the part of the delay that is not random
retryDelay(baseDelay, att) == baseDelay * Pow2(att - 1)

\* Math.random() * 500 lies in [0, 500): its two extremes, in whole ms
JitterValues == {0, 499}

\* the test of the last attempt off by one: the error is rethrown only after
\* maxRetries has been passed
retriesExhaustedLate(att) == att > maxRetries

\* if (attempt === maxRetries) throw err
retriesExhausted(att) == att = maxRetries

---------------------------------------------------------------------------
(* translateToRussian *)

\* /[а-яё]/i.test(text)
hasCyrillic(text) == \E i \in 1..Len(text) : text[i] \in Cyrillic

\* what the translation service may answer with for a text: a translation, the
\* text itself in lower case, and an empty answer
RuText == <<"cyr_b", "cyr_a">>

TranslatorReplies(text) == {RuText, toLowerCase(text), <<>>}

\* the test without the comparison: every non-empty answer counts as new
isNewTranslationAnyAnswer(text, translated) == translated # <<>>

\* translated && translated.toLowerCase() !== text.toLowerCase()
isNewTranslation(text, translated) ==
    translated # <<>> /\ toLowerCase(translated) # toLowerCase(text)

\* translationCache.set(text, translated)
cacheSet(cache, text, translated) ==
    [k \in DOMAIN cache \cup {text} |-> IF k = text THEN translated ELSE cache[k]]

\* translateToRussian with a catch block that rethrows
onTranslateErrorRethrown(text) == [thrown |-> TRUE, result |-> text]

\* the catch block and the fallback return: the error is logged, not rethrown,
\* and translateToRussian returns the original text
onTranslateError(text) == [thrown |-> FALSE, result |-> text]

\* the translation decision with the test on the wrong type: everything but
\* a brand is translated
shouldTranslateUnlessBrand(cls) == cls.type # "brand"

\* if (classification.type === 'descriptive')
shouldTranslate(cls) == cls.type = "descriptive"

---------------------------------------------------------------------------
(* checkRuStore: the report *)

RUSTORE_SEARCH_URL == <<"https://www.rustore.ru/catalog/search?query=">>

\* encodeURIComponent: the unreserved characters stay, every other character
\* is escaped (written as "%" followed by the character it stands for)
Unreserved ==
    AsciiLower \cup AsciiUpper \cup Digits \cup {"-", "_", ".", "!", "~", "*", "'", "(", ")"}

RECURSIVE encodeURIComponent(_)
encodeURIComponent(q) ==
    IF q = <<>> THEN <<>>
    ELSE (IF Head(q) \in Unreserved THEN <<Head(q)>> ELSE <<"%", Head(q)>>)
         \o encodeURIComponent(Tail(q))

searchUrlOf(query) == RUSTORE_SEARCH_URL \o encodeURIComponent(query)

\* gpRating || 0
gpRatingOrZero(gp) == IF gp = Absent THEN 0 ELSE gp

\* installs || 'N/A'
installsOrNA(inst) ==
    IF \/ inst.kind = "absent"
       \/ inst.kind = "string" /\ inst.str = <<>>
       \/ inst.kind = "number" /\ inst.num = 0
    THEN [kind |-> "string", str |-> <<"N", "/", "A">>, num |-> 0]
    ELSE inst

\* the stats object of the 'No app cards found' branch
noCardsStats(gp, inst) ==
    [competitorsCount |-> 0, avgRating |-> Null, maxRating |-> Null,
     gpRating |-> gpRatingOrZero(gp), installs |-> installsOrNA(inst)]

\* the 'No app cards found' branch with a score of its own instead of the
\* value of calculateOpportunityScore
noCardsReportFixedScore(query, gp, inst) ==
    [searchQuery |-> query,
     searchUrl |-> searchUrlOf(query),
     competitorsCount |-> 0,
     topCompetitors |-> <<>>,
     avgRating |-> Null,
     maxRating |-> Null,
     opportunityScore |-> 100]

\* the report of the 'No app cards found' branch
noCardsReport(query, gp, inst) ==
    [searchQuery |-> query,
     searchUrl |-> searchUrlOf(query),
     competitorsCount |-> 0,
     topCompetitors |-> <<>>,
     avgRating |-> Null,
     maxRating |-> Null,
     opportunityScore |-> calculateOpportunityScore(noCardsStats(gp, inst))]

\* step 5: c.relevance = calculateRelevance(...); c.relevant = c.relevance >= THRESHOLD
scoreCompetitors(comps, query, cleanedTitle) ==
    [i \in 1..Len(comps) |->
        [name |-> comps[i].name,
         rating |-> comps[i].rating,
         relevance |-> calculateRelevance(comps[i], query, cleanedTitle),
         relevant |-> isRelevant(calculateRelevance(comps[i], query, cleanedTitle))]]

RECURSIVE SumSeq(_)
SumSeq(xs) == IF xs = <<>> THEN 0 ELSE Head(xs) + SumSeq(Tail(xs))

RECURSIVE MaxSeq(_)
MaxSeq(xs) == IF Len(xs) = 1 THEN xs[1] ELSE Max(Head(xs), MaxSeq(Tail(xs)))

\* relevant.filter(c => c.rating !== null).map(c => c.rating)
ratingsOnlyOf(relevant) ==
    LET rated == SelectSeq(relevant, LAMBDA c : c.rating # Null) IN
    [i \in 1..Len(rated) |-> rated[i].rating]

\* Math.round((sum / length) * 10) / 10, ratings in hundredths
avgRatingOf(ratingsOnly) ==
    IF Len(ratingsOnly) > 0
    THEN ((2 * SumSeq(ratingsOnly) + 10 * Len(ratingsOnly)) \div (20 * Len(ratingsOnly))) * 10
    ELSE Null

\* Math.max(...ratingsOnly)
maxRatingOf(ratingsOnly) == IF Len(ratingsOnly) > 0 THEN MaxSeq(ratingsOnly) ELSE Null

\* (c.rating || 0), the key of the sort
ratingOrZero(c) == IF c.rating = Null THEN 0 ELSE c.rating

\* one step of the (stable) sort by rating, descending: c goes behind every
\* element that does not sort after it
RECURSIVE insertByRating(_, _)
insertByRating(sorted, c) ==
    IF sorted = <<>> THEN <<c>>
    ELSE IF ratingOrZero(Head(sorted)) >= ratingOrZero(c)
         THEN <<Head(sorted)>> \o insertByRating(Tail(sorted), c)
         ELSE <<c>> \o sorted

RECURSIVE sortByRating(_, _)
sortByRating(todo, sorted) ==
    IF todo = <<>> THEN sorted
    ELSE sortByRating(Tail(todo), insertByRating(sorted, Head(todo)))

\* topCompetitors without the sort: the first five relevant cards as found
topCompetitorsUnsorted(relevant) == SubSeq(relevant, 1, Min(5, Len(relevant)))

\* [...relevant].sort(...).slice(0, 5)
topCompetitorsOf(relevant) ==
    LET sorted == sortByRating(relevant, <<>>) IN
    SubSeq(sorted, 1, Min(5, Len(sorted)))

\* the stats with the ratings of every card, the filtered-out ones included
generalStatsOfAllCards(scored, gp, inst) ==
    LET relevant == SelectSeq(scored, LAMBDA c : c.relevant) IN
    [competitorsCount |-> Len(relevant),
     avgRating |-> avgRatingOf(ratingsOnlyOf(scored)),
     maxRating |-> maxRatingOf(ratingsOnlyOf(scored)),
     gpRating |-> gpRatingOrZero(gp),
     installs |-> installsOrNA(inst)]

\* the stats object of step 8
generalStats(scored, gp, inst) ==
    LET relevant == SelectSeq(scored, LAMBDA c : c.relevant) IN
    [competitorsCount |-> Len(relevant),
     avgRating |-> avgRatingOf(ratingsOnlyOf(relevant)),
     maxRating |-> maxRatingOf(ratingsOnlyOf(relevant)),
     gpRating |-> gpRatingOrZero(gp),
     installs |-> installsOrNA(inst)]

\* steps 6 to 8 and the final return, for the scored competitors
generalReport(scored, query, gp, inst) ==
    LET relevant == SelectSeq(scored, LAMBDA c : c.relevant)
        st == generalStats(scored, gp, inst)
    IN  [searchQuery |-> query,
         searchUrl |-> searchUrlOf(query),
         competitorsCount |-> st.competitorsCount,
         topCompetitors |-> topCompetitorsOf(relevant),
         avgRating |-> st.avgRating,
         maxRating |-> st.maxRating,
         opportunityScore |-> calculateOpportunityScore(st)]

---------------------------------------------------------------------------
(* checkRuStore: one check, from the call to the return or the throw *)

\* at most this many cards are read from the result page
MaxCompetitors == 2

\* "WhatsApp Messenger", "WhatsApp", "Photo Editor Pro", "X", and a title in
\* Cyrillic letters
CheckTitles ==
    { <<"W", "h", "a", "t", "s", "A", "p", "p", " ", "M", "e", "s", "s", "e", "n", "g", "e", "r">>,
      <<"W", "h", "a", "t", "s", "A", "p", "p">>,
      <<"P", "h", "o", "t", "o", " ", "E", "d", "i", "t", "o", "r", " ", "P", "r", "o">>,
      <<"X">>,
      <<"CYR_A", "cyr_b">> }

CheckCategories == {"Photography", "Communication"}

\* gp_rating: not passed, 4.2, 5.0
GpRatings == {Absent, 420, 500}

\* installs: not passed (as in the repository's test), "10M+", the number 1000
InstallsInputs ==
    { [kind |-> "absent", str |-> <<>>, num |-> 0],
      [kind |-> "string", str |-> <<"1", "0", "M", "+">>, num |-> 0],
      [kind |-> "number", str |-> <<>>, num |-> 1000] }

\* the cards of a result page: name and rating (null when the card shows none)
Candidates ==
    { [name |-> <<"W", "h", "a", "t", "s", "A", "p", "p">>, rating |-> 100],
      [name |-> <<"p", "h", "o", "t", "o", " ", "e", "d", "i", "t", "o", "r">>, rating |-> 425],
      [name |-> <<"P", "h", "o", "t", "o", " ", "L", "a", "b">>, rating |-> Null],
      [name |-> <<"X">>, rating |-> 470],
      [name |-> <<"T", "e", "l", "e", "g", "r", "a", "m">>, rating |-> 500] }

CompetitorLists == UNION {[1..n -> Candidates] : n \in 0..MaxCompetitors}

\* the cache a running process may hold from earlier checks
InitialCaches ==
    { EmptyCache,
      [k \in {<<"p", "h", "o", "t", "o", " ", "e", "d", "i", "t", "o", "r">>} |-> RuText] }

Init ==
    /\ title \in CheckTitles
    /\ category \in CheckCategories
    /\ gpRating \in GpRatings
    /\ installs \in InstallsInputs
    /\ pc = "start"
    /\ classification = NoClassification
    /\ cleaned = Unset
    /\ searchQuery = Unset
    /\ translateCalled = FALSE
    /\ attempt = 0
    /\ delays = <<>>
    /\ jitter = 0
    /\ translationCache \in InitialCaches
    /\ cacheAtCall = translationCache
    /\ endpointCalls = 0
    /\ failures = 0
    /\ page = "none"
    /\ competitors = <<>>
    /\ report = NoReport
    /\ path = "none"
    /\ thrownIn = "none"
    /\ retryResult = NoRetry
    /\ db = NoDb
    /\ calls = <<>>
    /\ translations = <<>>
    /\ NoBrowserUse
    /\ stats = NoStats
    /\ score = Null
    /\ competitor = NoCompetitor
    /\ relevance = Rat(0, 1)

inputVars == <<title, category, gpRating, installs>>

pureVars == <<stats, score, competitor, relevance>>

\* step 3, else branch: searchQuery = cleaned
KeepOriginal ==
    /\ pc = "cleaned"
    /\ ~shouldTranslate(classification)
    /\ searchQuery' = cleaned
    /\ pc' = "queried"
    /\ UNCHANGED <<storeVars, browserVars, translations, inputVars, pureVars, classification, cleaned, translateCalled,
                   attempt, delays, jitter, translationCache, cacheAtCall, thrownIn, retryResult,
                   endpointCalls, failures, page, competitors, report, path>>

\* step 3, then branch, translateToRussian returning at once: the text is
\* Cyrillic already, or the cache holds it
TranslateWithoutCall ==
    /\ pc = "cleaned"
    /\ shouldTranslate(classification)
    /\ hasCyrillic(cleaned) \/ cleaned \in DOMAIN translationCache
    /\ translateCalled' = TRUE
    /\ searchQuery' = IF hasCyrillic(cleaned) THEN cleaned ELSE translationCache[cleaned]
    /\ pc' = "queried"
    /\ UNCHANGED <<storeVars, browserVars, translations, inputVars, pureVars, classification, cleaned, attempt, delays,
                   jitter, translationCache, cacheAtCall, thrownIn, retryResult, endpointCalls, failures,
                   page, competitors, report, path>>

\* step 3, then branch, translateToRussian entering withRetry
TranslateBegin ==
    /\ pc = "cleaned"
    /\ retryResult' = [outcome |-> "running", attempt |-> 0]
    /\ shouldTranslate(classification)
    /\ ~hasCyrillic(cleaned)
    /\ cleaned \notin DOMAIN translationCache
    /\ translateCalled' = TRUE
    /\ attempt' = 1
    /\ delays' = <<>>
    /\ failures' = 0
    /\ pc' = "translating"
    /\ UNCHANGED <<storeVars, browserVars, translations, inputVars, pureVars, classification, cleaned, searchQuery, jitter,
                   translationCache, cacheAtCall, thrownIn, endpointCalls, page, competitors,
                   report, path>>

\* one attempt of the translation call that throws: HTTP status not ok, the
\* 5 s timeout, a body without responseData.  withRetry waits and tries again,
\* or rethrows after the last attempt, into the catch of translateToRussian
TranslateAttemptFails ==
    /\ pc = "translating"
    /\ retryResult' = IF retriesExhausted(attempt)
                      THEN [outcome |-> "threw", attempt |-> attempt]
                      ELSE retryResult
    /\ thrownIn' = IF retriesExhausted(attempt) /\ onTranslateError(cleaned).thrown
                   THEN "translateToRussian" ELSE thrownIn
    /\ endpointCalls' = endpointCalls + 1
    /\ failures' = failures + 1
    /\ IF retriesExhausted(attempt)
       THEN /\ pc' = IF onTranslateError(cleaned).thrown THEN "thrown" ELSE "queried"
            /\ searchQuery' = IF onTranslateError(cleaned).thrown THEN searchQuery
                              ELSE onTranslateError(cleaned).result
            /\ jitter' = 0
            /\ UNCHANGED <<attempt, delays>>
       ELSE /\ delays' = Append(delays, retryDelay(TranslateBaseDelay, attempt))
            /\ jitter' \in JitterValues
            /\ attempt' = attempt + 1
            /\ UNCHANGED <<pc, searchQuery>>
    /\ UNCHANGED <<storeVars, browserVars, translations, inputVars, pureVars, classification, cleaned, translateCalled,
                   translationCache, cacheAtCall, page, competitors, report, path>>

\* one attempt that returns data.responseData.translatedText, a string
TranslateAttemptSucceeds ==
    /\ pc = "translating"
    /\ retryResult' = [outcome |-> "returned", attempt |-> attempt]
    /\ endpointCalls' = endpointCalls + 1
    /\ \E translated \in TranslatorReplies(cleaned) :
          IF isNewTranslation(cleaned, translated)
          THEN /\ translationCache' = cacheSet(translationCache, cleaned, translated)
               /\ searchQuery' = translated
          ELSE /\ searchQuery' = cleaned
               /\ UNCHANGED translationCache
    /\ jitter' = 0
    /\ pc' = "queried"
    /\ UNCHANGED <<storeVars, browserVars, translations, inputVars, pureVars, classification, cleaned, translateCalled,
                   attempt, delays, cacheAtCall, thrownIn, failures, page, competitors, report,
                   path>>

\* one attempt that returns a translatedText that is no string (and not
\* falsy): translated.toLowerCase is not a function, thrown inside the try
TranslateReplyNotString ==
    /\ pc = "translating"
    /\ retryResult' = [outcome |-> "returned", attempt |-> attempt]
    /\ thrownIn' = IF onTranslateError(cleaned).thrown THEN "translateToRussian" ELSE thrownIn
    /\ endpointCalls' = endpointCalls + 1
    /\ pc' = IF onTranslateError(cleaned).thrown THEN "thrown" ELSE "queried"
    /\ searchQuery' = IF onTranslateError(cleaned).thrown THEN searchQuery
                      ELSE onTranslateError(cleaned).result
    /\ jitter' = 0
    /\ UNCHANGED <<storeVars, browserVars, translations, inputVars, pureVars, classification, cleaned, translateCalled,
                   attempt, delays, translationCache, cacheAtCall, failures, page,
                   competitors, report, path>>

\* const context = await getRuStoreContext()
GetContext ==
    /\ pc = "queried"
    /\ pc' = "context"
    /\ UNCHANGED <<storeVars, browserVars, translations, inputVars, pureVars, classification, cleaned, searchQuery,
                   translateCalled, attempt, delays, jitter, translationCache,
                   cacheAtCall, thrownIn, retryResult, endpointCalls, failures, page, competitors, report,
                   path>>

\* getRuStoreContext() rejects (the browser cannot be launched, newContext
\* fails): outside every try, checkRuStore throws
GetContextThrows ==
    /\ pc = "queried"
    /\ thrownIn' = "getRuStoreContext"
    /\ pc' = "thrown"
    /\ UNCHANGED <<storeVars, browserVars, translations, inputVars, pureVars, classification, cleaned, searchQuery,
                   translateCalled, attempt, delays, jitter, translationCache,
                   cacheAtCall, retryResult, endpointCalls, failures, page, competitors, report,
                   path>>

\* const page = await context.newPage(), then withRetry is entered
NewPage ==
    /\ pc = "context"
    /\ retryResult' = [outcome |-> "running", attempt |-> 0]
    /\ page' = "open"
    /\ attempt' = 1
    /\ delays' = <<>>
    /\ failures' = 0
    /\ pc' = "goto"
    /\ UNCHANGED <<storeVars, browserVars, translations, inputVars, pureVars, classification, cleaned, searchQuery,
                   translateCalled, jitter, translationCache, cacheAtCall, thrownIn,
                   endpointCalls, competitors, report, path>>

\* context.newPage() rejects (a stale context): checkRuStore throws
NewPageThrows ==
    /\ pc = "context"
    /\ thrownIn' = "newPage"
    /\ pc' = "thrown"
    /\ UNCHANGED <<storeVars, browserVars, translations, inputVars, pureVars, classification, cleaned, searchQuery,
                   translateCalled, attempt, delays, jitter, translationCache,
                   cacheAtCall, retryResult, endpointCalls, failures, page, competitors, report,
                   path>>

\* the scraping try with a catch block that rethrows
onScrapeErrorRethrown == [thrown |-> TRUE, next |-> "closing"]

\* what the catch (error) of the scraping try does with a navigation that
\* failed for good: it logs, and the finally closes the page
onScrapeError == [thrown |-> FALSE, next |-> "closing"]

\* page.goto fails: withRetry waits and tries again, or rethrows
GotoFails ==
    /\ pc = "goto"
    /\ retryResult' = IF retriesExhausted(attempt)
                      THEN [outcome |-> "threw", attempt |-> attempt]
                      ELSE retryResult
    /\ thrownIn' = IF retriesExhausted(attempt) /\ onScrapeError.thrown THEN "goto" ELSE thrownIn
    /\ failures' = failures + 1
    /\ IF retriesExhausted(attempt)
       THEN /\ pc' = IF onScrapeError.thrown THEN "thrown" ELSE onScrapeError.next
            /\ jitter' = 0
            /\ UNCHANGED <<attempt, delays>>
       ELSE /\ delays' = Append(delays, retryDelay(GotoBaseDelay, attempt))
            /\ jitter' \in JitterValues
            /\ attempt' = attempt + 1
            /\ UNCHANGED pc
    /\ UNCHANGED <<storeVars, browserVars, translations, inputVars, pureVars, classification, cleaned, searchQuery,
                   translateCalled, translationCache, cacheAtCall, endpointCalls,
                   page, competitors, report, path>>

\* page.goto resolves
GotoSucceeds ==
    /\ pc = "goto"
    /\ retryResult' = [outcome |-> "returned", attempt |-> attempt]
    /\ jitter' = 0
    /\ pc' = "waiting"
    /\ UNCHANGED <<storeVars, browserVars, translations, inputVars, pureVars, classification, cleaned, searchQuery,
                   translateCalled, attempt, delays, translationCache, cacheAtCall, thrownIn,
                   endpointCalls, failures, page, competitors, report, path>>

\* waitForSelector('[data-testid="app-card"]') resolves
CardsAppear ==
    /\ pc = "waiting"
    /\ pc' = "evaluate"
    /\ UNCHANGED <<storeVars, browserVars, translations, inputVars, pureVars, classification, cleaned, searchQuery,
                   translateCalled, attempt, delays, jitter, translationCache,
                   cacheAtCall, thrownIn, retryResult, endpointCalls, failures, page, competitors, report,
                   path>>

\* waitForSelector times out: the 'No app cards found' return (the finally
\* still closes the page before the caller gets the report)
NoCards ==
    /\ pc = "waiting"
    /\ stats' = noCardsStats(gpRating, installs)
    /\ score' = calculateOpportunityScore(noCardsStats(gpRating, installs))
    /\ report' = noCardsReport(searchQuery, gpRating, installs)
    /\ path' = "nocards"
    /\ pc' = "closing"
    /\ UNCHANGED <<storeVars, browserVars, translations, inputVars, competitor, relevance, classification, cleaned,
                   searchQuery, translateCalled, attempt, delays, jitter,
                   translationCache, cacheAtCall, thrownIn, retryResult, endpointCalls, failures, page,
                   competitors>>

\* competitors = await page.evaluate(...)
Evaluate ==
    /\ pc = "evaluate"
    /\ competitors' \in CompetitorLists
    /\ pc' = "closing"
    /\ UNCHANGED <<storeVars, browserVars, translations, inputVars, pureVars, classification, cleaned, searchQuery,
                   translateCalled, attempt, delays, jitter, translationCache,
                   cacheAtCall, thrownIn, retryResult, endpointCalls, failures, page, report, path>>

\* page.evaluate rejects: caught, competitors stays []
EvaluateThrows ==
    /\ pc = "evaluate"
    /\ thrownIn' = IF onScrapeError.thrown THEN "evaluate" ELSE thrownIn
    /\ pc' = IF onScrapeError.thrown THEN "thrown" ELSE onScrapeError.next
    /\ UNCHANGED <<storeVars, browserVars, translations, inputVars, pureVars, classification, cleaned, searchQuery,
                   translateCalled, attempt, delays, jitter, translationCache,
                   cacheAtCall, retryResult, endpointCalls, failures, page, competitors, report,
                   path>>

\* finally { await page.close() }
ClosePage ==
    /\ pc = "closing"
    /\ page' = "closed"
    /\ pc' = IF path = "nocards" THEN "done" ELSE "filter"
    /\ UNCHANGED <<storeVars, browserVars, translations, inputVars, pureVars, classification, cleaned, searchQuery,
                   translateCalled, attempt, delays, jitter, translationCache,
                   cacheAtCall, thrownIn, retryResult, endpointCalls, failures, competitors, report, path>>

\* steps 5 to 8 and the final return
FilterAndScore ==
    /\ pc = "filter"
    /\ competitors' = scoreCompetitors(competitors, searchQuery, cleaned)
    /\ stats' = generalStats(competitors', gpRating, installs)
    /\ score' = calculateOpportunityScore(stats')
    /\ report' = generalReport(competitors', searchQuery, gpRating, installs)
    /\ path' = "general"
    /\ pc' = "done"
    /\ UNCHANGED <<storeVars, browserVars, translations, inputVars, competitor, relevance, classification, cleaned,
                   searchQuery, translateCalled, attempt, delays, jitter,
                   translationCache, cacheAtCall, thrownIn, retryResult, endpointCalls, failures, page>>

Next ==
    \/ Classify
    \/ Clean
    \/ KeepOriginal
    \/ TranslateWithoutCall
    \/ TranslateBegin
    \/ TranslateAttemptFails
    \/ TranslateAttemptSucceeds
    \/ TranslateReplyNotString
    \/ GetContext
    \/ GetContextThrows
    \/ NewPage
    \/ NewPageThrows
    \/ GotoFails
    \/ GotoSucceeds
    \/ CardsAppear
    \/ NoCards
    \/ Evaluate
    \/ EvaluateThrows
    \/ ClosePage
    \/ FilterAndScore

Spec == Init /\ [][Next]_vars

---------------------------------------------------------------------------
(* Properties of the query builder, checked under SpecQuery *)

isLowerCased(s) == toLowerCase(s) = s

hasNoneOf(s, set) == \A i \in 1..Len(s) : s[i] \notin set

isCollapsed(s) == trim(CollapseWs(s)) = s

\* the punctuation-only clean-up of the title, with the set of its branch
punctuationOnly(t) ==
    IF Len(split(trim(t))) <= 2
    THEN trim(CollapseWs(ReplaceChars(t, PunctShort)))
    ELSE trim(CollapseWs(ReplaceChars(t, PunctLong)))

\* the punctuation set the specification lists: , ( ) [ ] : ; ! ? ' " & en-dash em-dash tm reg copy
ListedPunctuation == PunctLong \ {"-"}

\* C1, as stated: for every non-empty title and every category the query
\* returned by cleanSearchQuery is never empty and never shorter than 2.
C1_QueryAtLeastTwo ==
    (pc = "cleaned" /\ title # <<>>) => Len(cleaned) >= 2

\* C1, amended: for every non-empty title and every category the query
\* returned by cleanSearchQuery is never empty; it is either a cleaned string
\* of length >= 2 or the raw title unchanged, so it is shorter than 2 only
\* when the title itself is.
C1_QueryNeverEmpty ==
    (pc = "cleaned" /\ title # <<>>) =>
        /\ cleaned # <<>>
        /\ Len(cleaned) >= 2 \/ cleaned = title
        /\ Len(title) >= 2 => Len(cleaned) >= 2

\* C1 witness: a title of length >= 2 whose punctuation-only clean-up is
\* shorter than 2, so that the guard returned the raw title.
C1_GuardReturnsTitle ==
    /\ pc = "cleaned"
    /\ Len(title) >= 2
    /\ Len(punctuationOnly(title)) < 2
    /\ cleaned = title

\* C2, as stated: every query the builder produces, on every path, is
\* lower-cased, has the punctuation set stripped and whitespace collapsed.
C2_AlwaysNormalised ==
    pc = "cleaned" =>
        /\ isLowerCased(cleaned)
        /\ hasNoneOf(cleaned, ListedPunctuation)
        /\ isCollapsed(cleaned)

\* C2, amended: whenever the title keeps at least 2 characters once its
\* punctuation is stripped (the raw-title guard does not fire), the query has
\* its whitespace collapsed and trimmed and none of , ( ) [ ] : ; ! ? ' " tm
\* reg copy; for a title of more than 2 words it is also lower-cased and has
\* none of & - en-dash em-dash.
C2_NormalisedPerPath ==
    (pc = "cleaned" /\ Len(punctuationOnly(title)) >= 2) =>
        /\ isCollapsed(cleaned)
        /\ hasNoneOf(cleaned, PunctShort)
        /\ Len(split(trim(title))) > 2 =>
              isLowerCased(cleaned) /\ hasNoneOf(cleaned, PunctLong)

\* C2 witness: a title of more than 2 words with upper-case letters and
\* punctuation whose stop-word removal fell back to the soft clean-up.
C2_LongTitleSoftCleaned ==
    /\ pc = "cleaned"
    /\ Len(split(trim(title))) > 2
    /\ ~isLowerCased(title)
    /\ ~hasNoneOf(title, PunctLong)
    /\ cleaned = softClean(title)
    /\ Len(cleaned) >= 2

---------------------------------------------------------------------------
(* Properties of one check, checked under Spec *)

ReportFields ==
    {"searchQuery", "searchUrl", "competitorsCount", "topCompetitors",
     "avgRating", "maxRating", "opportunityScore"}

\* C3: in checkRuStore the translator is invoked if and only if the title is
\* classified descriptive; for brand and mixed titles no translation call is
\* made and searchQuery is exactly the cleaned string.
C3_TranslateIffDescriptive ==
    pc \notin {"start", "classified", "cleaned"} =>
        /\ translateCalled <=> classification.type = "descriptive"
        /\ classification.type \in {"brand", "mixed"} =>
              /\ endpointCalls = 0
              /\ searchQuery = cleaned
              /\ translationCache = cacheAtCall

\* C3 witness: a check of a mixed title ("WhatsApp Messenger") that returned
\* its report without the translator having been invoked.
C3_MixedTitleKeptOriginal ==
    /\ pc = "done"
    /\ classification.type = "mixed"
    /\ ~translateCalled
    /\ report.searchQuery = cleaned

\* C4: translateToRussian never throws; when the translation call failed on
\* every retry attempt it returned the original text unchanged and added
\* nothing to the cache, and the check went on.
C4_TranslationFailureNotFatal ==
    /\ thrownIn # "translateToRussian"
    /\ (translateCalled /\ page = "none" /\ failures = maxRetries) =>
          /\ pc \in {"queried", "context", "thrown"}
          /\ pc = "thrown" => thrownIn \in {"getRuStoreContext", "newPage"}
          /\ searchQuery = cleaned
          /\ translationCache = cacheAtCall

\* C4 witness: the translation call was made maxRetries times, failed each
\* time, and the check has gone on to open the context with the original text.
C4_AllRetriesFailedCheckGoesOn ==
    /\ pc = "context"
    /\ translateCalled
    /\ endpointCalls = maxRetries
    /\ failures = maxRetries
    /\ searchQuery = cleaned

\* C5: if the navigation fails on every retry attempt, checkRuStore does not
\* throw: it returns a complete report with competitorsCount 0, no top
\* competitors, avgRating and maxRating null and the opportunityScore of
\* calculateOpportunityScore, and the page it opened is closed.
C5_NavigationFailureGivesEmptyReport ==
    (page # "none" /\ failures = maxRetries) =>
        /\ thrownIn = "none"
        /\ pc \in {"closing", "filter", "done"}
        /\ pc \in {"filter", "done"} => page = "closed"
        /\ pc = "done" =>
              /\ DOMAIN report = ReportFields
              /\ report.searchQuery = searchQuery
              /\ report.competitorsCount = 0
              /\ report.topCompetitors = <<>>
              /\ report.avgRating = Null
              /\ report.maxRating = Null
              /\ report.opportunityScore =
                    calculateOpportunityScore(
                        [competitorsCount |-> 0, avgRating |-> Null, maxRating |-> Null,
                         gpRating |-> gpRatingOrZero(gpRating),
                         installs |-> installsOrNA(installs)])

\* C5 witness: page.goto failed maxRetries times and the check returned a
\* zero-competitor report with the page closed.
C5_NavigationFailedReportReturned ==
    /\ pc = "done"
    /\ failures = maxRetries
    /\ Len(delays) = maxRetries - 1
    /\ page = "closed"
    /\ report.competitorsCount = 0

\* C6: when no candidate is found the report has competitorsCount 0 and null
\* avgRating and maxRating, with the opportunityScore calculateOpportunityScore
\* gives for those stats; the 'no app cards' return is exactly the report the
\* general path returns for an empty candidate list with the same title,
\* gpRating and installs.
C6_NoCardsReportIsGeneralReport ==
    /\ path = "nocards" =>
          report = generalReport(scoreCompetitors(<<>>, searchQuery, cleaned),
                                 searchQuery, gpRating, installs)
    /\ (path = "general" /\ competitors = <<>>) =>
          report = noCardsReport(searchQuery, gpRating, installs)
    /\ (pc = "done" /\ report.competitorsCount = 0) =>
          /\ report.avgRating = Null
          /\ report.maxRating = Null
          /\ report.opportunityScore = calculateOpportunityScore(stats)
          /\ stats.competitorsCount = 0 /\ stats.avgRating = Null /\ stats.maxRating = Null

\* C6 witness: a check with a gpRating and an installs string that returned
\* through the 'no app cards' branch.
C6_ReturnedThroughNoCards ==
    /\ pc = "done"
    /\ path = "nocards"
    /\ gpRating = 420
    /\ installs.kind = "string"
    /\ report.opportunityScore < 100

\* C7: for every competitor list, gpRating and installs (absent ones
\* included) the opportunityScore of the returned report is an integer in
\* 0..100.
C7_ScoreWithinRange ==
    pc = "done" => report.opportunityScore \in 0..100

\* C7 witness: a check called without gpRating and without installs that
\* found relevant competitors and returned its report.
C7_ScoredWithoutRatingAndInstalls ==
    /\ pc = "done"
    /\ gpRating = Absent
    /\ installs.kind = "absent"
    /\ report.competitorsCount > 0

---------------------------------------------------------------------------
(* calculateOpportunityScore on its own *)

\* competitorsCount runs from 0 to MaxCount, past the 20 where f1 reaches 0
MaxCount == 21

\* avgRating and maxRating of the relevant competitors, in hundredths: both
\* null, or a rounded average not above the maximum
RatingPairs ==
    {<<Null, Null>>} \cup
    {p \in {100, 200, 350, 430, 500} \X {100, 200, 350, 430, 500} : p[1] <= p[2]}

\* the gpRating field: gpRating || 0
ScoreGpRatings == {0, 250, 300, 420, 450, 500}

\* the installs field: "N/A", "10M+", "1,234K+", "1.5k", "5T", "free" and the
\* numbers 1, 1000, 500000 and -5
ScoreInstalls ==
    { [kind |-> "string", str |-> s, num |-> 0] :
          s \in { <<"N", "/", "A">>, <<"1", "0", "M", "+">>,
                  <<"1", ",", "2", "3", "4", "K", "+">>, <<"1", ".", "5", "k">>,
                  <<"5", "T">>, <<"f", "r", "e", "e">> } }
    \cup { [kind |-> "number", str |-> <<>>, num |-> n] : n \in {1, 1000, 500000, -5} }

\* the argument of calculateOpportunityScore
ScoreStats ==
    { [competitorsCount |-> c, avgRating |-> r[1], maxRating |-> r[2],
       gpRating |-> g, installs |-> i] :
          c \in 0..MaxCount, r \in RatingPairs, g \in ScoreGpRatings, i \in ScoreInstalls }

InitScore ==
    /\ stats \in ScoreStats
    /\ score = Null
    /\ pc = "start"
    /\ title = Unset
    /\ category = "General"
    /\ gpRating = Absent
    /\ installs = [kind |-> "absent", str |-> <<>>, num |-> 0]
    /\ classification = NoClassification
    /\ cleaned = Unset
    /\ searchQuery = Unset
    /\ translateCalled = FALSE
    /\ attempt = 0
    /\ delays = <<>>
    /\ jitter = 0
    /\ translationCache = EmptyCache
    /\ cacheAtCall = EmptyCache
    /\ endpointCalls = 0
    /\ failures = 0
    /\ page = "none"
    /\ competitors = <<>>
    /\ report = NoReport
    /\ path = "none"
    /\ thrownIn = "none"
    /\ retryResult = NoRetry
    /\ db = NoDb
    /\ calls = <<>>
    /\ translations = <<>>
    /\ NoBrowserUse
    /\ competitor = NoCompetitor
    /\ relevance = Rat(0, 1)

\* const score = calculateOpportunityScore(stats)
Score ==
    /\ pc = "start"
    /\ score' = calculateOpportunityScore(stats)
    /\ pc' = "done"
    /\ UNCHANGED <<storeVars, browserVars, translations, inputVars, stats, competitor, relevance, classification, cleaned,
                   searchQuery, translateCalled, attempt, delays, jitter,
                   translationCache, cacheAtCall, thrownIn, retryResult, endpointCalls, failures,
                   page, competitors, report, path>>

NextScore == Score

SpecScore == InitScore /\ [][NextScore]_vars

---------------------------------------------------------------------------
(* calculateRelevance on the queries the query builder produces *)

\* translateToRussian(text): the values it can return with the cache as it is
translateToRussianResults(text, cache) ==
    IF hasCyrillic(text) THEN {text}
    ELSE IF text \in DOMAIN cache THEN {cache[text]}
    ELSE {text} \cup {t \in TranslatorReplies(text) : isNewTranslation(text, t)}

\* names of cards: the query itself, the cleaned title, and names that share
\* no word, one word, or a one-letter word with the titles of the vocabulary
RelevanceNames(query, cleanedTitle) ==
    { query, cleanedTitle,
      <<"T", "e", "l", "e", "g", "r", "a", "m">>,
      <<"P", "h", "o", "t", "o", " ", "L", "a", "b">>,
      <<"W", "h", "a", "t", "s", "A", "p", "p", " ", "W", "e", "b">>,
      <<"X">> }

RelevanceCandidates(query, cleanedTitle) ==
    { [name |-> n, rating |-> r] : n \in RelevanceNames(query, cleanedTitle), r \in {Null, 470} }

\* the titles of this specification: the vocabulary without the words that
\* differ from another one only by their category
RelevanceVocabulary ==
    { <<"W", "h", "a", "t", "s", "A", "p", "p">>,
      <<"P", "h", "o", "t", "o">>,
      <<"E", "d", "i", "t", "o", "r">>,
      <<"P", "r", "o">>,
      <<"X">>,
      <<"!">> }

RelevanceTitles ==
    UNION {{JoinWords(ws) : ws \in [1..n -> RelevanceVocabulary]} : n \in 1..MaxWords}

InitRel ==
    /\ title \in RelevanceTitles
    /\ category \in Categories
    /\ pc = "start"
    /\ Idle
    /\ db = NoDb
    /\ calls = <<>>
    /\ translations = <<>>
    /\ NoBrowserUse

\* step 3 as one step: searchQuery = translateToRussian(cleaned) for a
\* descriptive title, searchQuery = cleaned for the others
BuildQuery ==
    /\ pc = "cleaned"
    /\ translateCalled' = shouldTranslate(classification)
    /\ searchQuery' \in IF shouldTranslate(classification)
                        THEN translateToRussianResults(cleaned, translationCache)
                        ELSE {cleaned}
    /\ translationCache' =
          IF shouldTranslate(classification) /\ isNewTranslation(cleaned, searchQuery')
             /\ ~hasCyrillic(cleaned) /\ cleaned \notin DOMAIN translationCache
          THEN cacheSet(translationCache, cleaned, searchQuery')
          ELSE translationCache
    /\ pc' = "queried"
    /\ UNCHANGED <<storeVars, browserVars, translations, inputVars, pureVars, classification, cleaned, attempt, delays,
                   jitter, cacheAtCall, thrownIn, retryResult, endpointCalls, failures, page,
                   competitors, report, path>>

\* step 5 for one card c: c.relevance = calculateRelevance(c, searchQuery, cleaned)
Relevance ==
    /\ pc = "queried"
    /\ competitor' \in RelevanceCandidates(searchQuery, cleaned)
    /\ relevance' = calculateRelevance(competitor', searchQuery, cleaned)
    /\ pc' = "scored"
    /\ UNCHANGED <<storeVars, browserVars, translations, inputVars, stats, score, classification, cleaned, searchQuery,
                   translateCalled, attempt, delays, jitter, translationCache,
                   cacheAtCall, thrownIn, retryResult, endpointCalls, failures, page, competitors,
                   report, path>>

NextRel == Classify \/ Clean \/ BuildQuery \/ Relevance

SpecRel == InitRel /\ [][NextRel]_vars

---------------------------------------------------------------------------
(* Properties of calculateOpportunityScore, checked under SpecScore *)

scoreWith(st) == calculateOpportunityScore(st)

\* C8: with all other inputs fixed, a larger competitorsCount never gives a
\* larger score, a larger gpRating never gives a smaller score, and a larger
\* installs value never gives a smaller score.
C8_ScoreMonotonic ==
    pc = "done" =>
        /\ \A c \in 0..MaxCount :
              c >= stats.competitorsCount =>
                  scoreWith([stats EXCEPT !.competitorsCount = c]) <= score
        /\ \A g \in ScoreGpRatings :
              g >= stats.gpRating =>
                  scoreWith([stats EXCEPT !.gpRating = g]) >= score
        /\ \A i \in ScoreInstalls :
              installsNumOf(i) >= installsNumOf(stats.installs) =>
                  scoreWith([stats EXCEPT !.installs = i]) >= score

\* C8 witness: a scored call with 10 competitors, gpRating 3.0 and 1000
\* installs, where one competitor more lowers the score and a higher
\* gpRating and more installs raise it.
C8_ScoreMovesWithEachInput ==
    /\ pc = "done"
    /\ stats.competitorsCount = 10
    /\ stats.gpRating = 300
    /\ stats.installs = [kind |-> "number", str |-> <<>>, num |-> 1000]
    /\ scoreWith([stats EXCEPT !.competitorsCount = 11]) < score
    /\ scoreWith([stats EXCEPT !.gpRating = 420]) > score
    /\ scoreWith([stats EXCEPT !.installs =
                     [kind |-> "string", str |-> <<"1", "0", "M", "+">>, num |-> 0]]) > score

---------------------------------------------------------------------------
(* Properties of calculateRelevance, checked under SpecRel *)

RatZero == [n |-> 0, d |-> 1]

\* C9: calculateRelevance is always in [0, 1], does not decrease when
\* bestJaccard increases with substring match and rating presence fixed, and
\* does not decrease when a rating is present instead of absent.
C9_RelevanceBoundedMonotonic ==
    pc = "scored" =>
        /\ RatLeq(RatZero, relevance) /\ RatLeq(relevance, RatOne)
        /\ \A c \in RelevanceCandidates(searchQuery, cleaned) :
              ( /\ substringBonus(c, searchQuery, cleaned)
                      = substringBonus(competitor, searchQuery, cleaned)
                /\ (c.rating = Null) = (competitor.rating = Null)
                /\ RatLeq(bestJaccard(competitor, searchQuery, cleaned),
                          bestJaccard(c, searchQuery, cleaned)) )
              => RatLeq(relevance, calculateRelevance(c, searchQuery, cleaned))
        /\ competitor.rating = Null =>
              RatLeq(relevance,
                     calculateRelevance([competitor EXCEPT !.rating = 470],
                                        searchQuery, cleaned))

\* C9 witness: a card without rating was scored, a card of the same substring
\* match with a larger bestJaccard scores strictly higher, and so does the
\* same card with a rating.
C9_RelevanceGrowsStrictly ==
    /\ pc = "scored"
    /\ competitor.rating = Null
    /\ \E c \in RelevanceCandidates(searchQuery, cleaned) :
          /\ c.rating = Null
          /\ substringBonus(c, searchQuery, cleaned)
                = substringBonus(competitor, searchQuery, cleaned)
          /\ ~RatLeq(bestJaccard(c, searchQuery, cleaned),
                     bestJaccard(competitor, searchQuery, cleaned))
          /\ ~RatLeq(calculateRelevance(c, searchQuery, cleaned), relevance)
    /\ ~RatLeq(calculateRelevance([competitor EXCEPT !.rating = 470], searchQuery, cleaned),
               relevance)

\* C10: for every search query the query builder can produce, a card whose
\* name is exactly searchQuery and which has a rating gets relevance 1.0 and
\* is accepted.
C10_ExactNameFullyRelevant ==
    (pc = "scored" /\ competitor.name = searchQuery /\ competitor.rating # Null) =>
        relevance = RatOne /\ isRelevant(relevance)

---------------------------------------------------------------------------
(* Properties of classifyTitle, checked under SpecQuery *)

Range(s) == {s[i] : i \in 1..Len(s)}

\* the tokens of a title: its whitespace-separated words with the punctuation
\* set removed, the empty ones left out
titleTokens(t) ==
    {w \in {RemoveChars(x, PunctLong) : x \in Range(split(trim(t)))} : w # <<>>}

\* a word the filler filter of classifyTitle drops
isDroppedFiller(w) == toLowerCase(w) \in UniversalFillerSet \/ Len(w) < 2

\* C11: classifyTitle returns exactly one of brand, descriptive, mixed for
\* every title: brand iff brandWords is non-empty and the filtered otherWords
\* is empty, mixed iff both are non-empty, descriptive iff brandWords is
\* empty; and every punctuation-stripped token of the title is either a brand
\* word or another word (kept, or dropped as a filler), never both.
C11_ClassificationPartition ==
    pc # "start" =>
        /\ classification.type \in {"brand", "descriptive", "mixed"}
        /\ classification.type = "brand" <=>
              (classification.brandWords # <<>> /\ classification.otherWords = <<>>)
        /\ classification.type = "mixed" <=>
              (classification.brandWords # <<>> /\ classification.otherWords # <<>>)
        /\ classification.type = "descriptive" <=> classification.brandWords = <<>>
        /\ Range(classification.brandWords) \cap Range(classification.otherWords) = {}
        /\ Range(classification.brandWords) \cup Range(classification.otherWords)
              \subseteq titleTokens(title)
        /\ \A w \in titleTokens(title) :
              \/ w \in Range(classification.brandWords)
              \/ w \in Range(classification.otherWords)
              \/ isDroppedFiller(w) /\ ~isBrandToken(w)
        /\ \A w \in Range(classification.brandWords) : isBrandToken(w)
        /\ \A w \in Range(classification.otherWords) : ~isBrandToken(w) /\ ~isDroppedFiller(w)

\* C11 witness: a title with a brand word, a kept other word and a filler
\* word was classified mixed.
C11_MixedWithFillerDropped ==
    /\ pc = "classified"
    /\ classification.type = "mixed"
    /\ \E w \in titleTokens(title) :
          w \notin Range(classification.brandWords) \cup Range(classification.otherWords)

---------------------------------------------------------------------------
(* checkRuStore from the closed page on: steps 5 to 8 on longer result pages *)

\* at most this many cards on the result page, more than the 5 of the top list
MaxCards == 6

PhotoEditorQuery == <<"p", "h", "o", "t", "o", " ", "e", "d", "i", "t", "o", "r">>

\* cards for the query "photo editor": an equal name, a longer name, a name
\* sharing one word without rating, a name sharing no word with the best
\* rating, and a one-word name
TopCandidates ==
    { [name |-> PhotoEditorQuery, rating |-> 425],
      [name |-> <<"P", "h", "o", "t", "o", " ", "E", "d", "i", "t", "o", "r", " ", "P", "r", "o">>,
       rating |-> 470],
      [name |-> <<"P", "h", "o", "t", "o", " ", "L", "a", "b">>, rating |-> Null],
      [name |-> <<"T", "e", "l", "e", "g", "r", "a", "m">>, rating |-> 500],
      [name |-> <<"P", "h", "o", "t", "o">>, rating |-> 300] }

\* the check of "Photo Editor Pro" (Photography, 4.2, "10M+") whose
\* translation call returned the text unchanged, after finally closed the page
InitTop ==
    /\ title = <<"P", "h", "o", "t", "o", " ", "E", "d", "i", "t", "o", "r", " ", "P", "r", "o">>
    /\ category = "Photography"
    /\ gpRating = 420
    /\ installs = [kind |-> "string", str |-> <<"1", "0", "M", "+">>, num |-> 0]
    /\ classification = classifyTitle(title)
    /\ cleaned = cleanSearchQuery(title, category)
    /\ searchQuery = cleaned
    /\ translateCalled = TRUE
    /\ attempt = 1
    /\ delays = <<>>
    /\ jitter = 0
    /\ translationCache = EmptyCache
    /\ cacheAtCall = EmptyCache
    /\ endpointCalls = 1
    /\ failures = 0
    /\ page = "closed"
    /\ competitors \in UNION {[1..n -> TopCandidates] : n \in 0..MaxCards}
    /\ report = NoReport
    /\ path = "none"
    /\ thrownIn = "none"
    /\ retryResult = NoRetry
    /\ db = NoDb
    /\ calls = <<>>
    /\ translations = <<>>
    /\ NoBrowserUse
    /\ stats = NoStats
    /\ score = Null
    /\ competitor = NoCompetitor
    /\ relevance = Rat(0, 1)
    /\ pc = "filter"

NextTop == FilterAndScore

SpecTop == InitTop /\ [][NextTop]_vars

---------------------------------------------------------------------------
(* Properties of the report's statistics, checked under SpecTop *)

\* how many times the card c occurs in the list s
Occurrences(s, c) == Cardinality({i \in 1..Len(s) : s[i] = c})

\* the positions of the relevant cards, and of those among them with a rating
RelevantAt == {i \in 1..Len(competitors) : competitors[i].relevant}

RatedRelevantAt == {i \in RelevantAt : competitors[i].rating # Null}

sortKey(c) == IF c.rating = Null THEN 0 ELSE c.rating

RECURSIVE SumRatingsAt(_)
SumRatingsAt(positions) ==
    IF positions = {} THEN 0
    ELSE LET i == CHOOSE j \in positions : TRUE
         IN  competitors[i].rating + SumRatingsAt(positions \ {i})

\* C12: topCompetitors holds only relevant cards, min(5, competitorsCount) of
\* them, sorted by rating descending with a missing rating counted as 0 (so
\* unrated cards come last), and no relevant card left out has a higher
\* rating than one included.
C12_TopFiveByRating ==
    pc = "done" =>
        LET top == report.topCompetitors IN
        /\ Len(top) = Min(5, report.competitorsCount)
        /\ report.competitorsCount = Cardinality(RelevantAt)
        /\ \A i \in 1..Len(top) :
              /\ top[i].relevant
              /\ Occurrences(top, top[i]) <= Occurrences(competitors, top[i])
        /\ \A i \in 1..Len(top) : \A j \in i..Len(top) : sortKey(top[i]) >= sortKey(top[j])
        /\ \A i \in 1..Len(top) : \A j \in 1..Len(top) :
              (top[i].rating = Null /\ top[j].rating # Null) => j < i
        /\ \A k \in RelevantAt :
              Occurrences(top, competitors[k]) < Occurrences(competitors, competitors[k])
                  => \A i \in 1..Len(top) : sortKey(competitors[k]) <= sortKey(top[i])

\* C12 witness: more than 5 relevant cards, arriving lowest rating first and
\* with an unrated one ahead of a rated one, and a rated card left out.
C12_SixRelevantCardsCut ==
    /\ pc = "done"
    /\ report.competitorsCount > 5
    /\ Len(report.topCompetitors) = 5
    /\ competitors[1].rating = Null
    /\ competitors[2].rating = 300
    /\ competitors[Len(competitors)].rating = 470
    /\ report.topCompetitors[1].rating = 470
    /\ report.topCompetitors[5].rating # Null

\* C13, as stated: avgRating and maxRating are computed over the relevant
\* cards that have a rating only, both are rounded to 1 decimal, and both are
\* null exactly when no relevant card has a rating.
C13_AvgAndMaxRounded ==
    pc = "done" =>
        /\ (report.avgRating = Null) <=> (RatedRelevantAt = {})
        /\ (report.maxRating = Null) <=> (RatedRelevantAt = {})
        /\ RatedRelevantAt # {} =>
              /\ report.avgRating % 10 = 0
              /\ report.maxRating % 10 = 0
              /\ \A i \in RatedRelevantAt : competitors[i].rating <= report.maxRating
              /\ \E i \in RatedRelevantAt : competitors[i].rating = report.maxRating

\* C13, amended: avgRating and maxRating are computed over the relevant cards
\* that have a rating only; avgRating is their mean rounded to 1 decimal,
\* maxRating is the largest of their ratings as read, not rounded; both are
\* null exactly when no relevant card has a rating.
C13_AvgRoundedMaxAsRead ==
    pc = "done" =>
        LET n == Cardinality(RatedRelevantAt)
            sum == SumRatingsAt(RatedRelevantAt)
        IN  /\ (report.avgRating = Null) <=> (n = 0)
            /\ (report.maxRating = Null) <=> (n = 0)
            /\ n > 0 =>
                  /\ report.avgRating % 10 = 0
                  /\ report.avgRating * n - sum <= 5 * n
                  /\ sum - report.avgRating * n < 5 * n
                  /\ \A i \in RatedRelevantAt : competitors[i].rating <= report.maxRating
                  /\ \E i \in RatedRelevantAt : competitors[i].rating = report.maxRating

\* C13 witness: a report over rated relevant cards and a filtered-out card
\* with the highest rating, whose mean needed rounding and whose largest
\* rating has two decimals.
C13_MeanRoundedMaxUnrounded ==
    /\ pc = "done"
    /\ \E i \in 1..Len(competitors) : ~competitors[i].relevant /\ competitors[i].rating = 500
    /\ \E i \in RelevantAt : competitors[i].rating = Null
    /\ Cardinality(RatedRelevantAt) = 2
    /\ SumRatingsAt(RatedRelevantAt) = 725
    /\ report.avgRating = 360
    /\ report.maxRating = 425

---------------------------------------------------------------------------
(* Properties of withRetry, checked under Spec *)

isPrefix(s, t) == Len(s) <= Len(t) /\ \A i \in 1..Len(s) : s[i] = t[i]

\* C14: withRetry calls the operation at most maxRetries times, returns the
\* result of the first successful attempt without a further attempt, throws
\* the error of the last attempt iff every attempt failed, and waits only
\* between attempts, never after the final failure.
C14_RetryAtMostThreeTimes ==
    /\ attempt <= maxRetries
    /\ endpointCalls <= maxRetries
    /\ failures <= maxRetries
    /\ retryResult.outcome = "running" =>
          /\ pc \in {"translating", "goto"}
          /\ attempt = failures + 1
          /\ Len(delays) = failures
    /\ retryResult.outcome = "returned" =>
          /\ retryResult.attempt = failures + 1
          /\ Len(delays) = failures
          /\ page = "none" => endpointCalls = failures + 1
    /\ retryResult.outcome \in {"returned", "threw"} =>
          (retryResult.outcome = "threw" <=> failures = maxRetries)
    /\ retryResult.outcome = "threw" =>
          /\ retryResult.attempt = maxRetries
          /\ Len(delays) = maxRetries - 1
          /\ page = "none" => endpointCalls = maxRetries

\* C14 witness: a translation call that failed twice and returned on the
\* third attempt, after two waits.
C14_ReturnedOnThirdAttempt ==
    /\ pc = "queried"
    /\ retryResult = [outcome |-> "returned", attempt |-> maxRetries]
    /\ endpointCalls = maxRetries
    /\ failures = maxRetries - 1
    /\ Len(delays) = maxRetries - 1

\* C15, as stated: for the translation call and the page navigation alike
\* the waits between failed attempts follow the sequence 1 s, 2 s, 4 s from a
\* base of 1 s, each plus a random jitter of 0 to 500 ms.
C15_DelaysFromOneSecond ==
    /\ isPrefix(delays, <<1000, 2000, 4000>>)
    /\ jitter \in 0..500

\* C15, amended: the waits between failed attempts double from the base of
\* the call, each plus a random jitter of 0 to 500 ms: 1 s then 2 s for the
\* translation call (base 1 s), 2 s then 4 s for the page navigation (base
\* 2 s); with 3 attempts there are at most two waits.
C15_DelaysDoubleFromBase ==
    /\ jitter \in 0..500
    /\ Len(delays) <= maxRetries - 1
    /\ page = "none" => isPrefix(delays, <<1000, 2000>>)
    /\ page # "none" => isPrefix(delays, <<2000, 4000>>)
    /\ \A i \in 1..Len(delays) : i > 1 => delays[i] = 2 * delays[i - 1]

\* C15 witness: the navigation has failed twice and waited 2 s and 4 s, the
\* last wait with the largest jitter.
C15_NavigationWaitedTwice ==
    /\ pc = "goto"
    /\ delays = <<GotoBaseDelay, 2 * GotoBaseDelay>>
    /\ jitter = 499

---------------------------------------------------------------------------
(* The worked examples, checked under Spec *)

WhatsAppMessenger ==
    <<"W", "h", "a", "t", "s", "A", "p", "p", " ", "M", "e", "s", "s", "e", "n", "g", "e", "r">>

PhotoEditorPro ==
    <<"P", "h", "o", "t", "o", " ", "E", "d", "i", "t", "o", "r", " ", "P", "r", "o">>

queryBuilt == pc \notin {"start", "classified", "cleaned", "translating"}

\* C16, as stated: for "WhatsApp Messenger" in Communication the
\* classification is brand, the query is not translated and the search query
\* is the lower-cased "whatsapp".
C16_WhatsAppIsBrand ==
    (title = WhatsAppMessenger /\ category = "Communication" /\ queryBuilt) =>
        /\ classification.type = "brand"
        /\ ~translateCalled
        /\ searchQuery = <<"w", "h", "a", "t", "s", "a", "p", "p">>

\* C16, amended: for "WhatsApp Messenger" in Communication the classification
\* is mixed (brand word "WhatsApp", other word "Messenger": classifyTitle does
\* not look at the category fillers), the query is not translated, and the
\* search query is the title unchanged, "WhatsApp Messenger" (a title of 2
\* words only loses punctuation).
C16_WhatsAppMessengerIsMixed ==
    (title = WhatsAppMessenger /\ category = "Communication" /\ queryBuilt) =>
        /\ classification.type = "mixed"
        /\ classification.brandWords = << <<"W", "h", "a", "t", "s", "A", "p", "p">> >>
        /\ classification.otherWords = << <<"M", "e", "s", "s", "e", "n", "g", "e", "r">> >>
        /\ ~translateCalled
        /\ endpointCalls = 0
        /\ searchQuery = WhatsAppMessenger

\* C16 witness: the check of "WhatsApp Messenger" in Communication returned
\* its report.
C16_WhatsAppMessengerChecked ==
    /\ pc = "done"
    /\ title = WhatsAppMessenger
    /\ category = "Communication"
    /\ report.searchQuery = WhatsAppMessenger

\* C17, as stated: for "Photo Editor Pro" in Photography the stop-word
\* removal leaves fewer than 2 words, the cleaned query falls back to "photo
\* editor pro", the title is descriptive and the translator is invoked on
\* that query.
C17_PhotoEditorProFallsBack ==
    (title = PhotoEditorPro /\ category = "Photography" /\ queryBuilt) =>
        /\ cleaned = toLowerCase(PhotoEditorPro)
        /\ classification.type = "descriptive"
        /\ translateCalled

\* C17, amended: for "Photo Editor Pro" in Photography the stop-word removal
\* drops only "pro" (the first word "photo" is protected from the category
\* fillers) and leaves the 2 words "photo editor", so there is no fallback and
\* the cleaned query is "photo editor"; the title is descriptive and the
\* translator is invoked on that query.
C17_PhotoEditorProKeepsTwoWords ==
    (title = PhotoEditorPro /\ category = "Photography" /\ queryBuilt) =>
        /\ cleaned = PhotoEditorQuery
        /\ cleaned # softClean(title)
        /\ classification.type = "descriptive"
        /\ classification.brandWords = <<>>
        /\ translateCalled
        /\ searchQuery \in translateToRussianResults(cleaned, cacheAtCall)

\* C17 witness: the check of "Photo Editor Pro" in Photography called the
\* translation service for "photo editor" and searched for the translation.
C17_PhotoEditorTranslated ==
    /\ pc = "done"
    /\ title = PhotoEditorPro
    /\ category = "Photography"
    /\ endpointCalls = 1
    /\ report.searchQuery = RuText
    /\ translationCache[PhotoEditorQuery] = RuText

---------------------------------------------------------------------------
(* translateToRussian called by several checks in flight: the calls share  *)
(* translationCache and suspend at the request and at the retry timer     *)

\* the translateToRussian calls that can be in flight together
MaxTranslations == 3

\* the texts of the calls: an English query and a Cyrillic one
TranslateTexts == {PhotoEditorQuery, RuText}

\* a second translation the service may answer with for the same text
OtherRuText == <<"cyr_a", "cyr_b">>

\* a call that was not made yet.  hit, entry and stale are history: the cache
\* held an entry for the text when the call was made, that entry's value, and
\* whether a request of the call was sent while the cache held an entry
NotTranslating ==
    [text |-> Unset, status |-> "idle", attempt |-> 0, result |-> Unset,
     hit |-> FALSE, entry |-> Unset, requests |-> 0, stale |-> FALSE]

\* translateToRussian(text) up to its first await: a Cyrillic text and a
\* cached text return at once; otherwise withRetry sends the first request
CallTranslate(c) ==
    /\ translations[c].status = "idle"
    /\ \A b \in 1..(c - 1) : translations[b].status # "idle"
    /\ \E text \in TranslateTexts :
          LET call == [NotTranslating EXCEPT !.text = text] IN
          IF hasCyrillic(text)
          THEN /\ translations' = [translations EXCEPT ![c] =
                      [call EXCEPT !.status = "returned", !.result = text]]
               /\ UNCHANGED endpointCalls
          ELSE IF text \in DOMAIN translationCache
          THEN /\ translations' = [translations EXCEPT ![c] =
                      [call EXCEPT !.status = "returned", !.hit = TRUE,
                                   !.entry = translationCache[text],
                                   !.result = translationCache[text]]]
               /\ UNCHANGED endpointCalls
          ELSE /\ translations' = [translations EXCEPT ![c] =
                      [call EXCEPT !.status = "fetching", !.attempt = 1, !.requests = 1]]
               /\ endpointCalls' = endpointCalls + 1
    /\ UNCHANGED <<storeVars, browserVars, inputVars, pureVars, pc, classification, cleaned,
                   searchQuery, translateCalled, attempt, delays, jitter,
                   translationCache, cacheAtCall, failures, page, competitors, report,
                   path, thrownIn, retryResult>>

\* the request of a call fails (HTTP status, timeout, no responseData):
\* withRetry starts the timer, or rethrows after the last attempt and the
\* catch block lets translateToRussian return the text
FetchFails(c) ==
    /\ translations[c].status = "fetching"
    /\ translations' = [translations EXCEPT ![c] =
          IF retriesExhausted(@.attempt)
          THEN [@ EXCEPT !.status = "returned", !.result = onTranslateError(translations[c].text).result]
          ELSE [@ EXCEPT !.status = "waiting"]]
    /\ UNCHANGED <<storeVars, browserVars, inputVars, pureVars, pc, classification, cleaned,
                   searchQuery, translateCalled, attempt, delays, jitter,
                   translationCache, cacheAtCall, endpointCalls, failures, page,
                   competitors, report, path, thrownIn, retryResult>>

\* the timer of withRetry fires: the next attempt sends the request again.
\* The cache is not looked at again
FetchAgain(c) ==
    /\ translations[c].status = "waiting"
    /\ translations' = [translations EXCEPT ![c] =
          [@ EXCEPT !.status = "fetching", !.attempt = @ + 1, !.requests = @ + 1,
                    !.stale = @ \/ translations[c].text \in DOMAIN translationCache]]
    /\ endpointCalls' = endpointCalls + 1
    /\ UNCHANGED <<storeVars, browserVars, inputVars, pureVars, pc, classification, cleaned,
                   searchQuery, translateCalled, attempt, delays, jitter,
                   translationCache, cacheAtCall, failures, page, competitors, report,
                   path, thrownIn, retryResult>>

\* the request of a call is answered with a translatedText that is a string:
\* a new translation is stored and returned, anything else returns the text
FetchSucceeds(c) ==
    /\ translations[c].status = "fetching"
    /\ \E translated \in TranslatorReplies(translations[c].text) \cup {OtherRuText} :
          LET text == translations[c].text IN
          IF isNewTranslation(text, translated)
          THEN /\ translationCache' = cacheSet(translationCache, text, translated)
               /\ translations' = [translations EXCEPT ![c].status = "returned",
                                                       ![c].result = translated]
          ELSE /\ translations' = [translations EXCEPT ![c].status = "returned",
                                                       ![c].result = text]
               /\ UNCHANGED translationCache
    /\ UNCHANGED <<storeVars, browserVars, inputVars, pureVars, pc, classification, cleaned,
                   searchQuery, translateCalled, attempt, delays, jitter, cacheAtCall,
                   endpointCalls, failures, page, competitors, report, path, thrownIn,
                   retryResult>>

\* the request is answered with a translatedText that is no string:
\* translated.toLowerCase() throws inside the try block
FetchedNoString(c) ==
    /\ translations[c].status = "fetching"
    /\ translations' = [translations EXCEPT ![c].status = "returned",
                           ![c].result = onTranslateError(translations[c].text).result]
    /\ UNCHANGED <<storeVars, browserVars, inputVars, pureVars, pc, classification, cleaned,
                   searchQuery, translateCalled, attempt, delays, jitter,
                   translationCache, cacheAtCall, endpointCalls, failures, page,
                   competitors, report, path, thrownIn, retryResult>>

InitTranslate ==
    /\ Idle
    /\ title = Unset
    /\ category = "General"
    /\ pc = "start"
    /\ db = NoDb
    /\ calls = <<>>
    /\ translations = [c \in 1..MaxTranslations |-> NotTranslating]
    /\ NoBrowserUse

NextTranslate ==
    \E c \in 1..MaxTranslations :
       \/ CallTranslate(c)
       \/ FetchFails(c)
       \/ FetchAgain(c)
       \/ FetchSucceeds(c)
       \/ FetchedNoString(c)

SpecTranslate == InitTranslate /\ [][NextTranslate]_vars

\* C20: over any interleaving of translateToRussian calls, a request is sent
\* to the endpoint for a text only if the text has no Cyrillic character and
\* the cache holds no entry for it at the moment the request is sent; a
\* Cyrillic text is returned unchanged; an entry is written only for a
\* translation that differs case-insensitively from its key; a call made when
\* an entry exists returns the entry's value
C20_EndpointOnlyWhileNotCached ==
    /\ \A c \in DOMAIN translations :
          LET call == translations[c] IN
          /\ call.requests > 0 =>
                ~hasCyrillic(call.text) /\ ~call.hit /\ ~call.stale
          /\ (call.status = "returned" /\ hasCyrillic(call.text)) => call.result = call.text
          /\ (call.status = "returned" /\ call.hit) => call.result = call.entry
    /\ \A text \in DOMAIN translationCache :
          toLowerCase(translationCache[text]) # toLowerCase(text)

\* C20, with the cache test placed where the code makes it: a call sends
\* requests (at most maxRetries) only if its text has no Cyrillic character
\* and the cache held no entry for it when the call was made; a Cyrillic text
\* is returned unchanged and a cached text returns the entry's value, both
\* without a request; an entry is written only for a translation that
\* differs case-insensitively from its key
C20_EndpointOnlyAfterMissAtCall ==
    /\ \A c \in DOMAIN translations :
          LET call == translations[c] IN
          /\ call.requests > 0 => ~hasCyrillic(call.text) /\ ~call.hit
          /\ call.requests <= maxRetries
          /\ (call.status = "returned" /\ hasCyrillic(call.text)) =>
                call.result = call.text /\ call.requests = 0
          /\ (call.status = "returned" /\ call.hit) =>
                call.result = call.entry /\ call.requests = 0
    /\ \A text \in DOMAIN translationCache :
          toLowerCase(translationCache[text]) # toLowerCase(text)

\* C20 happens: a call retried its request after another call had stored the
\* translation of the same text, and a third call, made after that, returned
\* the entry without a request
C20_RetrySentWhileCached ==
    \E a, b \in DOMAIN translations :
       /\ translations[a].stale
       /\ translations[a].status = "returned"
       /\ translations[b].text = translations[a].text
       /\ translations[b].hit
       /\ translations[b].requests = 0
       /\ translations[b].result = translationCache[translations[b].text]

---------------------------------------------------------------------------
(* The storage module db.js: every data operation runs its statements on  *)
(* the one sqlite3 connection, one statement at a time, and awaits each   *)

\* the data operations that can be in flight together
MaxCalls == 2

\* the two lists the server keeps: of /api/scrape and of /api/scrape-new-free
Sources == {"top_free", "top_new_free"}

\* app.title of a scraped entry without a title, bound as SQL NULL
NullTitle == "NULL"

\* the titles of the lists handed to replaceApps: a full list, and a list
\* whose second entry has no title
AppLists == { <<"Chat", "Maps">>, <<"Chat", NullTitle>> }

\* req.params.id of a check: the ids of the first rows, and of a row that a
\* later list brings
AppIds == 1..3

\* report.opportunityScore
Scores == {10, 90}

\* the tables of a database, and the AUTOINCREMENT counter of apps
tables(d) == [apps |-> d.apps, reports |-> d.reports, seq |-> d.seq]

\* dbRun(sql, params) on database d: the database after the statement, and
\* whether the promise resolved (ok) or was rejected.  BEGIN inside a
\* transaction, COMMIT and ROLLBACK outside one, a NULL title (NOT NULL) and a
\* report of an app that has no row (FOREIGN KEY) are rejected and change
\* nothing; a statement outside a transaction is committed at once; deleting
\* an app deletes its reports (ON DELETE CASCADE)
dbRun(d, sql, params) ==
    LET resolve(e) == [db |-> e, ok |-> TRUE]
        reject == [db |-> d, ok |-> FALSE]
        ids(rows) == {r.id : r \in rows}
    IN CASE sql = "BEGIN TRANSACTION" ->
              IF d.inTransaction THEN reject
              ELSE resolve([d EXCEPT !.inTransaction = TRUE, !.journal = tables(d)])
         [] sql = "COMMIT" ->
              IF ~d.inTransaction THEN reject
              ELSE resolve([d EXCEPT !.inTransaction = FALSE, !.journal = NoJournal])
         [] sql = "ROLLBACK" ->
              IF ~d.inTransaction THEN reject
              ELSE resolve([apps |-> d.journal.apps, reports |-> d.journal.reports,
                            seq |-> d.journal.seq, inTransaction |-> FALSE,
                            journal |-> NoJournal])
         [] sql = "DELETE FROM apps WHERE source = ?" ->
              LET rest == {r \in d.apps : r.source # params[1]}
              IN resolve([d EXCEPT !.apps = rest,
                                   !.reports = SelectSeq(@, LAMBDA r : r.app_id \in ids(rest))])
         [] sql = "INSERT INTO apps" ->
              IF params[1] = NullTitle THEN reject
              ELSE resolve([d EXCEPT !.apps = @ \cup {[id |-> d.seq + 1, title |-> params[1],
                                                      source |-> params[2],
                                                      rustore_exists |-> Null,
                                                      opportunity_score |-> Null]},
                                     !.seq = @ + 1])
         [] sql = "UPDATE apps SET rustore_exists = ? WHERE id = ?" ->
              resolve([d EXCEPT !.apps = {IF r.id = params[3]
                                          THEN [r EXCEPT !.rustore_exists = params[1],
                                                         !.opportunity_score = params[2]]
                                          ELSE r : r \in @}])
         [] sql = "DELETE FROM rustore_reports WHERE app_id = ?" ->
              resolve([d EXCEPT !.reports = SelectSeq(@, LAMBDA r : r.app_id # params[1])])
         [] sql = "INSERT INTO rustore_reports" ->
              IF params[1] \notin ids(d.apps) THEN reject
              ELSE resolve([d EXCEPT !.reports = Append(@, [app_id |-> params[1],
                                                           opportunity_score |-> params[2]])])
         [] sql = "DELETE FROM rustore_reports" ->
              resolve([d EXCEPT !.reports = <<>>])
         [] sql = "UPDATE apps SET rustore_exists = NULL" ->
              resolve([d EXCEPT !.apps = {[r EXCEPT !.rustore_exists = Null,
                                                    !.opportunity_score = Null] : r \in @}])

\* a statement of an operation: the arguments of one dbRun call
Statement(sql, params) == [sql |-> sql, params |-> params]

\* replaceApps(source, apps): the statement awaited before the try block, the
\* statements of the try block, and the statement of the catch block, after
\* which the error is thrown again
replaceApps(source, apps) ==
    [ open  |-> <<Statement("BEGIN TRANSACTION", <<>>)>>,
      try   |-> <<Statement("DELETE FROM apps WHERE source = ?", <<source>>)>>
                \o [i \in 1..Len(apps) |-> Statement("INSERT INTO apps", <<apps[i], source>>)]
                \o <<Statement("COMMIT", <<>>)>>,
      catch |-> <<Statement("ROLLBACK", <<>>)>> ]

\* updateRuStoreData(appId, data): one UPDATE, no transaction, no try block
updateRuStoreData(appId, data) ==
    [ open  |-> <<Statement("UPDATE apps SET rustore_exists = ? WHERE id = ?",
                            <<data.rustore_exists, data.opportunity_score, appId>>)>>,
      try   |-> <<>>,
      catch |-> <<>> ]

\* saveReport that inserts the new report without deleting the old one
saveReportWithoutDelete(appId, rep) ==
    [ open  |-> <<Statement("BEGIN TRANSACTION", <<>>)>>,
      try   |-> << Statement("INSERT INTO rustore_reports", <<appId, rep.opportunityScore>>),
                   Statement("COMMIT", <<>>) >>,
      catch |-> <<Statement("ROLLBACK", <<>>)>> ]

\* saveReport(appId, report)
saveReport(appId, rep) ==
    [ open  |-> <<Statement("BEGIN TRANSACTION", <<>>)>>,
      try   |-> << Statement("DELETE FROM rustore_reports WHERE app_id = ?", <<appId>>),
                   Statement("INSERT INTO rustore_reports", <<appId, rep.opportunityScore>>),
                   Statement("COMMIT", <<>>) >>,
      catch |-> <<Statement("ROLLBACK", <<>>)>> ]

\* resetRuStoreData()
resetRuStoreData ==
    [ open  |-> <<Statement("BEGIN TRANSACTION", <<>>)>>,
      try   |-> << Statement("DELETE FROM rustore_reports", <<>>),
                   Statement("UPDATE apps SET rustore_exists = NULL", <<>>),
                   Statement("COMMIT", <<>>) >>,
      catch |-> <<Statement("ROLLBACK", <<>>)>> ]

\* POST /api/check/:id once checkRuStore has returned the report: the
\* statement of updateRuStoreData, then the statements of saveReport.  The
\* UPDATE and the BEGIN are outside the try block of saveReport: an error of
\* either goes straight to the catch of the handler, which answers 500
checkHandler(appId, rep) ==
    LET update == updateRuStoreData(appId, [rustore_exists |-> 1,
                                            opportunity_score |-> rep.opportunityScore])
        save == saveReport(appId, rep)
    IN [ open  |-> update.open \o save.open,
         try   |-> save.try,
         catch |-> save.catch ]

\* getApps(source, filter): the rows the SELECT finds (the rows carry no rank
\* here, so the ORDER BY is left out)
getApps(d, source, filter) ==
    {r \in d.apps : /\ r.source = source
                    /\ filter = "not_checked" => r.rustore_exists = Null
                    /\ filter = "checked" => r.rustore_exists = 1}

\* a call that was not made yet
NotCalled ==
    [op |-> "none", source |-> "none", apps |-> <<>>, appId |-> 0, score |-> 0,
     status |-> "idle", next |-> 0, before |-> NoJournal, finished |-> 0]

\* the calls the server makes: replaceApps from the list handlers,
\* updateRuStoreData and saveReport from POST /api/check/:id (rustore_exists
\* is always 1 there), resetRuStoreData from POST /api/reset-rustore
Requests ==
    {[NotCalled EXCEPT !.op = "replaceApps", !.source = s, !.apps = l] :
        s \in Sources, l \in AppLists}
    \cup {[NotCalled EXCEPT !.op = o, !.appId = a, !.score = n] :
        o \in {"updateRuStoreData", "saveReport"}, a \in AppIds, n \in Scores}
    \cup {[NotCalled EXCEPT !.op = "resetRuStoreData"]}

\* the statements of a call
programOf(call) ==
    CASE call.op = "replaceApps" -> replaceApps(call.source, call.apps)
      [] call.op = "updateRuStoreData" ->
            updateRuStoreData(call.appId, [rustore_exists |-> 1,
                                           opportunity_score |-> call.score])
      [] call.op = "saveReport" -> saveReport(call.appId, [opportunityScore |-> call.score])
      [] call.op = "resetRuStoreData" -> resetRuStoreData
      [] call.op = "check" -> checkHandler(call.appId, [opportunityScore |-> call.score])

\* the number of calls that have returned or thrown
finishedCalls == Cardinality({c \in DOMAIN calls : calls[c].finished > 0})

\* a data operation is called: it awaits schemaReady, its first statement is
\* not queued yet.  before and finished are history: the tables at the moment
\* of the call, and the position of the call in the order of completion
Call(c) ==
    /\ calls[c].status = "idle"
    /\ \A b \in 1..(c - 1) : calls[b].status # "idle"
    /\ \E r \in Requests :
          calls' = [calls EXCEPT ![c] = [r EXCEPT !.status = "running", !.next = 1,
                                                  !.before = tables(db)]]
    /\ UNCHANGED <<db, browserVars, translations, inputVars, pureVars, pc, classification, cleaned,
                   searchQuery, translateCalled, attempt, delays, jitter,
                   translationCache, cacheAtCall, endpointCalls, failures, page,
                   competitors, report, path, thrownIn, retryResult>>

\* await dbRun(..) of the next statement of a call.  The operation returns
\* after its last statement; a rejected statement of the try block enters the
\* catch block, a rejected statement outside a try block ends the call with
\* the error
Run(c) ==
    /\ calls[c].status = "running"
    /\ LET p == programOf(calls[c])
           all == p.open \o p.try
           n == calls[c].next
           r == dbRun(db, all[n].sql, all[n].params)
           status == IF r.ok THEN (IF n = Len(all) THEN "returned" ELSE "running")
                     ELSE IF n > Len(p.open) /\ Len(p.catch) > 0 THEN "catch"
                     ELSE "threw"
       IN /\ db' = r.db
          /\ calls' = [calls EXCEPT ![c].status = status,
                                    ![c].next = IF status = "running" THEN n + 1 ELSE n,
                                    ![c].finished = IF status \in {"returned", "threw"}
                                                    THEN finishedCalls + 1 ELSE 0]
    /\ UNCHANGED <<browserVars, translations, inputVars, pureVars, pc, classification, cleaned,
                   searchQuery, translateCalled, attempt, delays, jitter,
                   translationCache, cacheAtCall, endpointCalls, failures, page,
                   competitors, report, path, thrownIn, retryResult>>

\* the catch block: await dbRun('ROLLBACK'), then throw err (or the error of
\* the ROLLBACK itself)
Catch(c) ==
    /\ calls[c].status = "catch"
    /\ LET s == programOf(calls[c]).catch[1]
       IN db' = dbRun(db, s.sql, s.params).db
    /\ calls' = [calls EXCEPT ![c].status = "threw", ![c].finished = finishedCalls + 1]
    /\ UNCHANGED <<browserVars, translations, inputVars, pureVars, pc, classification, cleaned,
                   searchQuery, translateCalled, attempt, delays, jitter,
                   translationCache, cacheAtCall, endpointCalls, failures, page,
                   competitors, report, path, thrownIn, retryResult>>

\* the database of a running server: both lists were stored (ids 1 and 2), and
\* the app of the first may have been checked already
InitialStores ==
    LET row(i, t, s, e, o) == [id |-> i, title |-> t, source |-> s,
                               rustore_exists |-> e, opportunity_score |-> o]
    IN { [NoDb EXCEPT !.apps = {row(1, "Maps", "top_free", Null, Null),
                                row(2, "Chat", "top_new_free", Null, Null)},
                      !.seq = 2],
         [NoDb EXCEPT !.apps = {row(1, "Maps", "top_free", 1, 50),
                                row(2, "Chat", "top_new_free", Null, Null)},
                      !.reports = <<[app_id |-> 1, opportunity_score |-> 50]>>,
                      !.seq = 2] }

InitDb ==
    /\ Idle
    /\ title = Unset
    /\ category = "General"
    /\ pc = "start"
    /\ db \in InitialStores
    /\ calls = [c \in 1..MaxCalls |-> NotCalled]
    /\ translations = <<>>
    /\ NoBrowserUse

NextDb == \E c \in 1..MaxCalls : Call(c) \/ Run(c) \/ Catch(c)

SpecDb == InitDb /\ [][NextDb]_vars

---------------------------------------------------------------------------
(* The server: the requests that reach the storage module *)

\* the requests that write: a list refresh (POST /api/update-list, /api/scrape,
\* /api/scrape-new-free), a check whose checkRuStore returned a report, a reset
HandlerRequests ==
    {[NotCalled EXCEPT !.op = "replaceApps", !.source = s, !.apps = l] :
        s \in Sources, l \in AppLists}
    \cup {[NotCalled EXCEPT !.op = "check", !.appId = a, !.score = n] :
        a \in AppIds, n \in Scores}
    \cup {[NotCalled EXCEPT !.op = "resetRuStoreData"]}

\* a request arrives and its handler reaches its first storage call
Request(c) ==
    /\ calls[c].status = "idle"
    /\ \A b \in 1..(c - 1) : calls[b].status # "idle"
    /\ \E r \in HandlerRequests :
          calls' = [calls EXCEPT ![c] = [r EXCEPT !.status = "running", !.next = 1,
                                                  !.before = tables(db)]]
    /\ UNCHANGED <<db, browserVars, translations, inputVars, pureVars, pc, classification, cleaned,
                   searchQuery, translateCalled, attempt, delays, jitter,
                   translationCache, cacheAtCall, endpointCalls, failures, page,
                   competitors, report, path, thrownIn, retryResult>>

NextServer == \E c \in 1..MaxCalls : Request(c) \/ Run(c) \/ Catch(c)

SpecServer == InitDb /\ [][NextServer]_vars

---------------------------------------------------------------------------
(* Claims about the storage module *)

\* the rows of a source are exactly a list handed to replaceApps: one row per
\* entry, with its title, never checked
isStoredList(rows, source, apps) ==
    LET stored == {r \in rows : r.source = source}
    IN /\ Cardinality(stored) = Len(apps)
       /\ {r.title : r \in stored} = Range(apps)
       /\ \A r \in stored : r.rustore_exists = Null /\ r.opportunity_score = Null

\* C18: replaceApps is atomic.  In the state in which a replaceApps call
\* returns, the apps rows of its source are exactly the new list; in the state
\* in which it throws, they are exactly the rows that were there before the
\* call; in both, the rows of the other sources are the rows that were there
\* before the call
C18_ReplaceAppsAtomic ==
    [][\A c \in DOMAIN calls :
          (calls[c].op = "replaceApps" /\ calls[c].finished = 0 /\ calls'[c].finished > 0)
          => LET source == calls[c].source
                 ofSource(rows) == {r \in rows : r.source = source}
                 others(rows) == {r \in rows : r.source # source}
             IN /\ IF calls'[c].status = "returned"
                   THEN isStoredList(db'.apps, source, calls[c].apps)
                   ELSE ofSource(db'.apps) = ofSource(calls[c].before.apps)
                /\ others(db'.apps) = others(calls[c].before.apps)]_vars

\* the stored reports of an app, as getReport's SELECT finds them
reportsOf(d, appId) == SelectSeq(d.reports, LAMBDA r : r.app_id = appId)

\* every call that was made is a saveReport call, and each has ended
onlySaveReportCalls ==
    /\ \E c \in DOMAIN calls : calls[c].op = "saveReport"
    /\ \A c \in DOMAIN calls : /\ calls[c].op \in {"none", "saveReport"}
                               /\ calls[c].status \in {"idle", "returned", "threw"}

\* C19: rustore_reports never holds two rows of one app_id; and after
\* saveReport calls (one after the other or overlapping) have ended, the row
\* of an app is the report of the last call for that app that returned, and
\* where no call for the app returned (every one threw) the rows of the app
\* are the ones stored before the calls
C19_LastSavedReportStored ==
    /\ \A i, j \in 1..Len(db.reports) :
          i # j => db.reports[i].app_id # db.reports[j].app_id
    /\ onlySaveReportCalls =>
          \A a \in AppIds :
             LET returned == {c \in DOMAIN calls : /\ calls[c].op = "saveReport"
                                                   /\ calls[c].appId = a
                                                   /\ calls[c].status = "returned"}
                 last == CHOOSE c \in returned :
                            \A b \in returned : calls[b].finished <= calls[c].finished
             IN reportsOf(db, a) =
                   IF returned = {} THEN reportsOf(calls[1].before, a)
                   ELSE <<[app_id |-> a, opportunity_score |-> calls[last].score]>>

\* C19 happens: two saveReport calls for the app of row 1 overlapped, the
\* second was rejected while the first held the transaction, the first
\* returned after that, and its report replaced the stored one
C19_OverlappingSaveKeptFirst ==
    /\ Len(calls) >= 2
    /\ calls[1].op = "saveReport" /\ calls[2].op = "saveReport"
    /\ calls[1].appId = 1 /\ calls[2].appId = 1
    /\ calls[1].score = 10 /\ calls[2].score = 90
    /\ calls[2].status = "threw" /\ calls[2].finished = 1
    /\ calls[1].status = "returned" /\ calls[1].finished = 2
    /\ reportsOf(calls[1].before, 1) = <<[app_id |-> 1, opportunity_score |-> 50]>>
    /\ reportsOf(db, 1) = <<[app_id |-> 1, opportunity_score |-> 10]>>

\* C22: when storage operations are in flight together on the one
\* connection, no transactional operation (replaceApps, saveReport,
\* resetRuStoreData) fails because of another one, that is, its BEGIN is
\* never rejected; and no statement of updateRuStoreData runs inside the
\* transaction of another operation, to be committed or rolled back with it
C22_OperationsDoNotInterfere ==
    [][\A c \in DOMAIN calls :
          (calls[c].status = "running" /\ calls'[c] # calls[c]) =>
             /\ (calls[c].op \in {"replaceApps", "saveReport", "resetRuStoreData"}
                 /\ calls[c].next = 1) => calls'[c].status # "threw"
             /\ calls[c].op = "updateRuStoreData" => ~db.inTransaction]_vars

\* every request that was made has been answered
allAnswered ==
    \A c \in DOMAIN calls : calls[c].status \in {"idle", "returned", "threw"}

\* C23: once the checks, list refreshes and resets that were in flight have
\* completed, an apps row has rustore_exists = 1 with opportunity_score = s
\* exactly if a rustore_reports row of that app exists with
\* opportunity_score = s (so a check answered with an error has changed
\* neither the row nor the report)
C23_RowsAgreeWithReports ==
    allAnswered =>
        \A row \in db.apps : \A s \in Scores \cup {50} :
           (row.rustore_exists = 1 /\ row.opportunity_score = s)
           <=> \E i \in 1..Len(db.reports) :
                  /\ db.reports[i].app_id = row.id
                  /\ db.reports[i].opportunity_score = s

\* C26: in every storage state every apps row has rustore_exists NULL or 1,
\* so for each source the 'checked' and 'not_checked' lists of getApps are
\* disjoint and together make the 'all' list; and in the state in which
\* resetRuStoreData returns, every row is 'not_checked' and no report exists
C26_CheckedOrNotChecked ==
    /\ [](\A source \in Sources :
            /\ \A r \in getApps(db, source, "all") : r.rustore_exists \in {Null, 1}
            /\ getApps(db, source, "checked") \cap getApps(db, source, "not_checked") = {}
            /\ getApps(db, source, "checked") \cup getApps(db, source, "not_checked")
                  = getApps(db, source, "all"))
    /\ [][\A c \in DOMAIN calls :
             (calls[c].op = "resetRuStoreData" /\ calls[c].status = "running"
              /\ calls'[c].status = "returned")
             => /\ \A source \in Sources :
                      getApps(db', source, "not_checked") = getApps(db', source, "all")
                /\ db'.reports = <<>>]_vars

---------------------------------------------------------------------------
(* Claims about the protected words of cleanSearchQuery *)

\* the words of a title that cleanSearchQuery protects, as written in the
\* title: the first word and every brand token (tested without punctuation)
protectedTitleWords(t) ==
    LET words == split(trim(t)) IN
    {words[j] : j \in {i \in 1..Len(words) :
                          LET clean == RemoveChars(words[i], PunctLong) IN
                          clean # <<>> /\ (isBrandToken(clean) \/ i = 1)}}

\* a word of the title appears in a query: in lower case, and where it holds
\* punctuation, as the words the punctuation separates
appearsIn(word, query) ==
    LET pieces == split(trim(CollapseWs(ReplaceChars(toLowerCase(word), PunctLong))))
    IN Range(pieces) \subseteq Range(split(query))

\* C21: for a title of more than 2 words, every brand token and the first
\* word of the title still appear, lower-cased, as words of the query that
\* cleanSearchQuery returns, whatever universal and category fillers apply
C21_ProtectedWordsKept ==
    (pc = "cleaned" /\ Len(split(trim(title))) > 2) =>
        \A w \in protectedTitleWords(title) : appearsIn(w, toLowerCase(cleaned))

---------------------------------------------------------------------------
(* The shared browser and the shared RuStore context.                      *)
(* browser and rusContext are the two module variables of the parser; 0 is *)
(* null.  playwright holds the objects behind them: the status of every    *)
(* browser that was launched and, for every context that was created, its  *)
(* browser and whether close() was called on it.  Every await of the code  *)
(* is a point where another call may run.                                  *)

MaxTasks == 3

TaskOps == {"checkRuStore", "scrapeAppBrain", "closeBrowser"}

NoTask == [op |-> "none", pc |-> "idle", b |-> 0, ctx |-> 0]

\* browser.isConnected()
isConnected(pw, b) == pw.browsers[b] = "connected"

\* a context accepts newPage() and route() while it is open and its browser
\* is connected
isUsable(pw, c) == pw.contexts[c].open /\ isConnected(pw, pw.contexts[c].browser)

\* browser.close(): the browser is disconnected and its contexts are closed
closed(pw, b) ==
    [browsers |-> [pw.browsers EXCEPT ![b] = "closed"],
     contexts |-> [c \in DOMAIN pw.contexts |->
                      IF pw.contexts[c].browser = b
                      THEN [pw.contexts[c] EXCEPT !.open = FALSE]
                      ELSE pw.contexts[c]]]

\* getBrowser up to its await: the test of line 32
getBrowser(task) ==
    IF browser = 0 \/ ~isConnected(playwright, browser)
    THEN [task EXCEPT !.pc = "launching"]
    ELSE [task EXCEPT !.pc = "gotBrowser", !.b = browser]

\* a call of checkRuStore, scrapeAppBrain or closeBrowser begins
StartTask(t) ==
    /\ t = Len(tasks) + 1
    /\ \E op \in TaskOps : tasks' = Append(tasks, [NoTask EXCEPT !.op = op, !.pc = "start"])
    /\ UNCHANGED <<browser, rusContext, playwright>>
    /\ UNCHANGED <<storeVars, translations, inputVars, pureVars, pc, classification,
                   cleaned, searchQuery, translateCalled, attempt, delays, jitter,
                   translationCache, cacheAtCall, endpointCalls, failures, page,
                   competitors, report, path, thrownIn, retryResult>>

\* checkRuStore line 444: getRuStoreContext returns the context it holds, or
\* goes on to getBrowser
AskContext(t) ==
    /\ t \in DOMAIN tasks
    /\ tasks[t].op = "checkRuStore" /\ tasks[t].pc = "start"
    /\ tasks' = [tasks EXCEPT ![t] =
                    IF rusContext # 0
                    THEN [@ EXCEPT !.pc = "gotContext", !.ctx = rusContext]
                    ELSE getBrowser(@)]
    /\ UNCHANGED <<browser, rusContext, playwright>>
    /\ UNCHANGED <<storeVars, translations, inputVars, pureVars, pc, classification,
                   cleaned, searchQuery, translateCalled, attempt, delays, jitter,
                   translationCache, cacheAtCall, endpointCalls, failures, page,
                   competitors, report, path, thrownIn, retryResult>>

\* scrapeAppBrain line 86: const b = await getBrowser()
AskBrowser(t) ==
    /\ t \in DOMAIN tasks
    /\ tasks[t].op = "scrapeAppBrain" /\ tasks[t].pc = "start"
    /\ tasks' = [tasks EXCEPT ![t] = getBrowser(@)]
    /\ UNCHANGED <<browser, rusContext, playwright>>
    /\ UNCHANGED <<storeVars, translations, inputVars, pureVars, pc, classification,
                   cleaned, searchQuery, translateCalled, attempt, delays, jitter,
                   translationCache, cacheAtCall, endpointCalls, failures, page,
                   competitors, report, path, thrownIn, retryResult>>

\* getBrowser after its await: browser = await chromium.launch(...)
Launched(t) ==
    /\ t \in DOMAIN tasks
    /\ tasks[t].pc = "launching"
    /\ LET n == Len(playwright.browsers) + 1
       IN  /\ playwright' = [playwright EXCEPT !.browsers = Append(@, "connected")]
           /\ browser' = n
           /\ tasks' = [tasks EXCEPT ![t].pc = "gotBrowser", ![t].b = n]
    /\ UNCHANGED rusContext
    /\ UNCHANGED <<storeVars, translations, inputVars, pureVars, pc, classification,
                   cleaned, searchQuery, translateCalled, attempt, delays, jitter,
                   translationCache, cacheAtCall, endpointCalls, failures, page,
                   competitors, report, path, thrownIn, retryResult>>

\* getRuStoreContext lines 51-57: rusContext = await b.newContext(...), then
\* route() is called on it; newContext throws on a disconnected browser
ContextCreated(t) ==
    /\ t \in DOMAIN tasks
    /\ tasks[t].op = "checkRuStore" /\ tasks[t].pc = "gotBrowser"
    /\ IF isConnected(playwright, tasks[t].b)
       THEN LET n == Len(playwright.contexts) + 1
            IN  /\ playwright' = [playwright EXCEPT !.contexts =
                       Append(@, [browser |-> tasks[t].b, open |-> TRUE])]
                /\ rusContext' = n
                /\ tasks' = [tasks EXCEPT ![t].pc = "routing", ![t].ctx = n]
       ELSE /\ tasks' = [tasks EXCEPT ![t].pc = "threw"]
            /\ UNCHANGED <<rusContext, playwright>>
    /\ UNCHANGED browser
    /\ UNCHANGED <<storeVars, translations, inputVars, pureVars, pc, classification,
                   cleaned, searchQuery, translateCalled, attempt, delays, jitter,
                   translationCache, cacheAtCall, endpointCalls, failures, page,
                   competitors, report, path, thrownIn, retryResult>>

\* getRuStoreContext lines 57-65: route() answers and `return rusContext`
\* hands out what the variable holds by then
ContextReturned(t) ==
    /\ t \in DOMAIN tasks
    /\ tasks[t].pc = "routing"
    /\ tasks' = [tasks EXCEPT ![t] =
                    IF isUsable(playwright, tasks[t].ctx)
                    THEN [@ EXCEPT !.pc = "gotContext", !.ctx = rusContext]
                    ELSE [@ EXCEPT !.pc = "threw"]]
    /\ UNCHANGED <<browser, rusContext, playwright>>
    /\ UNCHANGED <<storeVars, translations, inputVars, pureVars, pc, classification,
                   cleaned, searchQuery, translateCalled, attempt, delays, jitter,
                   translationCache, cacheAtCall, endpointCalls, failures, page,
                   competitors, report, path, thrownIn, retryResult>>

\* checkRuStore line 445: const page = await context.newPage(), outside the
\* try: on null or on a context that is not usable the check throws
PageAsked(t) ==
    /\ t \in DOMAIN tasks
    /\ tasks[t].pc = "gotContext"
    /\ tasks' = [tasks EXCEPT ![t].pc =
                    IF tasks[t].ctx # 0 /\ isUsable(playwright, tasks[t].ctx)
                    THEN "done" ELSE "threw"]
    /\ UNCHANGED <<browser, rusContext, playwright>>
    /\ UNCHANGED <<storeVars, translations, inputVars, pureVars, pc, classification,
                   cleaned, searchQuery, translateCalled, attempt, delays, jitter,
                   translationCache, cacheAtCall, endpointCalls, failures, page,
                   competitors, report, path, thrownIn, retryResult>>

\* scrapeAppBrain lines 87-147: a context of its own on b, closed in finally
Scraped(t) ==
    /\ t \in DOMAIN tasks
    /\ tasks[t].op = "scrapeAppBrain" /\ tasks[t].pc = "gotBrowser"
    /\ tasks' = [tasks EXCEPT ![t].pc =
                    IF isConnected(playwright, tasks[t].b) THEN "done" ELSE "threw"]
    /\ UNCHANGED <<browser, rusContext, playwright>>
    /\ UNCHANGED <<storeVars, translations, inputVars, pureVars, pc, classification,
                   cleaned, searchQuery, translateCalled, attempt, delays, jitter,
                   translationCache, cacheAtCall, endpointCalls, failures, page,
                   competitors, report, path, thrownIn, retryResult>>

\* closeBrowser from `if (browser)` on: browser.close() is called and awaited
closeTheBrowser(t) ==
    IF browser # 0
    THEN /\ playwright' = closed(playwright, browser)
         /\ tasks' = [tasks EXCEPT ![t].pc = "closingBrowser"]
    ELSE /\ tasks' = [tasks EXCEPT ![t].pc = "done"]
         /\ UNCHANGED playwright

\* closeBrowser lines 69-71: rusContext.close() is called and awaited
CloseAsked(t) ==
    /\ t \in DOMAIN tasks
    /\ tasks[t].op = "closeBrowser" /\ tasks[t].pc = "start"
    /\ IF rusContext # 0
       THEN /\ playwright' = [playwright EXCEPT !.contexts[rusContext].open = FALSE]
            /\ tasks' = [tasks EXCEPT ![t].pc = "closingContext"]
       ELSE closeTheBrowser(t)
    /\ UNCHANGED <<browser, rusContext>>
    /\ UNCHANGED <<storeVars, translations, inputVars, pureVars, pc, classification,
                   cleaned, searchQuery, translateCalled, attempt, delays, jitter,
                   translationCache, cacheAtCall, endpointCalls, failures, page,
                   competitors, report, path, thrownIn, retryResult>>

\* closeBrowser lines 71-74: rusContext = null, then the browser
ContextClosed(t) ==
    /\ t \in DOMAIN tasks
    /\ tasks[t].pc = "closingContext"
    /\ rusContext' = 0
    /\ closeTheBrowser(t)
    /\ UNCHANGED browser
    /\ UNCHANGED <<storeVars, translations, inputVars, pureVars, pc, classification,
                   cleaned, searchQuery, translateCalled, attempt, delays, jitter,
                   translationCache, cacheAtCall, endpointCalls, failures, page,
                   competitors, report, path, thrownIn, retryResult>>

\* closeBrowser line 75: browser = null
BrowserClosed(t) ==
    /\ t \in DOMAIN tasks
    /\ tasks[t].pc = "closingBrowser"
    /\ browser' = 0
    /\ tasks' = [tasks EXCEPT ![t].pc = "done"]
    /\ UNCHANGED <<rusContext, playwright>>
    /\ UNCHANGED <<storeVars, translations, inputVars, pureVars, pc, classification,
                   cleaned, searchQuery, translateCalled, attempt, delays, jitter,
                   translationCache, cacheAtCall, endpointCalls, failures, page,
                   competitors, report, path, thrownIn, retryResult>>

\* the browser process dies: what isConnected() of line 32 is there for
Disconnected ==
    /\ \E b \in DOMAIN playwright.browsers :
          /\ isConnected(playwright, b)
          /\ playwright' = [playwright EXCEPT !.browsers[b] = "crashed"]
    /\ UNCHANGED <<browser, rusContext, tasks>>
    /\ UNCHANGED <<storeVars, translations, inputVars, pureVars, pc, classification,
                   cleaned, searchQuery, translateCalled, attempt, delays, jitter,
                   translationCache, cacheAtCall, endpointCalls, failures, page,
                   competitors, report, path, thrownIn, retryResult>>

InitBrowser ==
    /\ Idle
    /\ title = Unset
    /\ category = "General"
    /\ pc = "start"
    /\ db = NoDb
    /\ calls = <<>>
    /\ translations = <<>>
    /\ NoBrowserUse

NextBrowser ==
    \/ \E t \in 1..MaxTasks :
          \/ StartTask(t)
          \/ AskContext(t)
          \/ AskBrowser(t)
          \/ Launched(t)
          \/ ContextCreated(t)
          \/ ContextReturned(t)
          \/ PageAsked(t)
          \/ Scraped(t)
          \/ CloseAsked(t)
          \/ ContextClosed(t)
          \/ BrowserClosed(t)
    \/ Disconnected

SpecBrowser == InitBrowser /\ [][NextBrowser]_vars

---------------------------------------------------------------------------
(* Claims about the shared browser and the shared RuStore context *)

\* C24: whenever getRuStoreContext returns a context to checkRuStore, it is
\* a usable context of the browser that the variable browser holds and that
\* is connected: never null, never a context of a crashed or closed browser
C24_ReturnedContextOfConnectedBrowser ==
    [][\A t \in DOMAIN tasks :
          (tasks[t].pc # "gotContext" /\ tasks'[t].pc = "gotContext")
          => /\ tasks'[t].ctx # 0
             /\ isUsable(playwright', tasks'[t].ctx)
             /\ playwright'.contexts[tasks'[t].ctx].browser = browser']_vars

\* C25: at any moment at most one launched browser is connected and at most
\* one created context is usable, and each of them is the one the variables
\* browser and rusContext hold, so that closeBrowser can close it
C25_BrowserAndContextSingletons ==
    LET connected == {b \in DOMAIN playwright.browsers : isConnected(playwright, b)}
        usable    == {c \in DOMAIN playwright.contexts : isUsable(playwright, c)}
    IN  /\ Cardinality(connected) <= 1
        /\ Cardinality(usable) <= 1
        /\ \A b \in connected : b = browser
        /\ \A c \in usable : c = rusContext

---------------------------------------------------------------------------
(* Claims about the relevance filter of checkRuStore, checked under Spec *)

\* a and b share a word of at least 2 characters, letter case aside
sharesToken(a, b) ==
    \E w \in Range(split(toLowerCase(a))) :
        Len(w) >= 2 /\ w \in Range(split(toLowerCase(b)))

\* one of a and b, trimmed and letter case aside, is a part of the other
inSubstringRelation(a, b) ==
    LET al == trim(toLowerCase(a))
        bl == trim(toLowerCase(b))
    IN  al # <<>> /\ bl # <<>> /\ (includes(al, bl) \/ includes(bl, al))

\* the name of a card has something in common with the query or the title
isRelatedName(name) ==
    \/ sharesToken(name, searchQuery) \/ sharesToken(name, cleaned)
    \/ inSubstringRelation(name, searchQuery) \/ inSubstringRelation(name, cleaned)

\* C27: a card is never accepted on its rating alone: every card marked
\* relevant shares a word of length >= 2 with searchQuery or the cleaned
\* title or is in a substring relation with one of them; the cards with
\* neither, rated or not, are not relevant, are not counted in
\* competitorsCount and are not among topCompetitors.
C27_NeverAcceptedOnRatingAlone ==
    (pc = "done" /\ path = "general") =>
        LET related == {i \in 1..Len(competitors) : isRelatedName(competitors[i].name)}
            top     == report.topCompetitors
        IN  /\ \A i \in 1..Len(competitors) :
                  competitors[i].relevant <=> isRelevant(competitors[i].relevance)
            /\ \A i \in 1..Len(competitors) : competitors[i].relevant => i \in related
            /\ report.competitorsCount <= Cardinality(related)
            /\ \A j \in 1..Len(top) : isRelatedName(top[j].name)

\* C27 witness: a check ended with two cards, one with a rating and nothing
\* in common with the query or the title, rejected with the relevance 0.1 of
\* its rating, the other accepted; only the second was counted and listed.
C27_RatedStrangerRejected ==
    /\ pc = "done" /\ path = "general"
    /\ Len(competitors) = 2
    /\ competitors[1].rating # Null
    /\ ~isRelatedName(competitors[1].name)
    /\ competitors[1].relevance = Rat(1, 10)
    /\ ~competitors[1].relevant
    /\ competitors[2].relevant
    /\ report.competitorsCount = 1
    /\ Len(report.topCompetitors) = 1
    /\ report.topCompetitors[1].name = competitors[2].name

===========================================================================
